---- MODULE Spec2Model ----
(***************************************************************************)
(* Course catalog and enrollment module (apps/web/src/routes/courses):     *)
(* the request handlers of -app/, the domain services of -domain/ and the  *)
(* repositories of -lib/, over the two tables of lib/db/schema/course.ts.  *)
(*                                                                         *)
(* A handler is one atomic action here: every await of a handler runs to   *)
(* completion before another request starts.                               *)
(*                                                                         *)
(* Values.  A decimal string ("0", "0.00", "4.5") is the record            *)
(* [w |-> whole part, f |-> fraction digits]; a JavaScript number is the   *)
(* record [whole, cents] that parseFloat gives.  Row ids are the integers  *)
(* handed out by the id generator, never reused.                           *)
(***************************************************************************)
EXTENDS Integers, Sequences, FiniteSets, TLC

\* ------------------------------------------------------------------ bounds
MaxCourses == 2
MaxEnrollments == 2
MaxTagLen == 3
MaxClock == 2
MaxTodos == 2
MaxToggles == 3

\* ------------------------------------------------------- program constants
MAX_CATEGORY_TAGS == 2
VALID_CATEGORY_TAGS == <<"prakerja", "spl">>
MIN_PRICE == [whole |-> 0, cents |-> 0]
MAX_PRICE == [whole |-> 99999999, cents |-> 99]
MIN_RATING == [whole |-> 1, cents |-> 0]
MAX_RATING == [whole |-> 5, cents |-> 0]
FREE_RATING_CAP == [whole |-> 3, cents |-> 0]
MAX_NAME_LENGTH == 255
DEFAULT_LIMIT == 50
MAX_LIMIT == 100

\* null, and undefined where it is passed as a value.  An optional key of an
\* object that is undefined is a key outside the DOMAIN of the record.
Null == [null |-> TRUE]
Undefined == [undefined |-> TRUE]


\* ---------------------------------------------------------------- helpers
Range(s) == {s[i] : i \in DOMAIN s}

SeqsUpTo(S, n) == UNION {[1..k -> S] : k \in 0..n}

Includes(s, x) == \E i \in DOMAIN s : s[i] = x

\* ------------------------------------------------------- decimal strings
Dec(w, f) == [w |-> w, f |-> f]

\* parseFloat of a string that matched /^\d+(\.\d{1,2})?$/ or /^\d(\.\d)?$/
parseFloat(s) ==
  [whole |-> s.w,
   cents |-> IF Len(s.f) = 0 THEN 0
             ELSE IF Len(s.f) = 1 THEN 10 * s.f[1]
             ELSE 10 * s.f[1] + s.f[2]]

NumLess(a, b) == a.whole < b.whole \/ (a.whole = b.whole /\ a.cents < b.cents)

NumIsZero(a) == a.whole = 0 /\ a.cents = 0

\* what a numeric(p, 2) column gives back for a value written to it
Numeric2(s) ==
  Dec(s.w, IF Len(s.f) = 0 THEN <<0, 0>>
           ELSE IF Len(s.f) = 1 THEN <<s.f[1], 0>>
           ELSE s.f)

\* what a numeric(3, 1) column gives back for a value written to it
Numeric1(s) == Dec(s.w, IF Len(s.f) = 0 THEN <<0>> ELSE s.f)

\* ----------------------------------------------------- CourseService
Has(o, k) == k \in DOMAIN o

Valid == [valid |-> TRUE]
Invalid(field, reason) == [valid |-> FALSE, field |-> field, reason |-> reason]

\* String.prototype.trim on the names used here
Trim(name) == IF name = " " THEN "" ELSE name

validateCourseName(name) ==
  IF name = "" \/ Trim(name) = ""
    THEN Invalid("name", [text |-> "Course name is required"])
  ELSE IF Len(name) > MAX_NAME_LENGTH
    THEN Invalid("name", [text |-> "Course name cannot exceed 255 characters"])
  ELSE Valid

validateCoursePrice(price) ==
  LET numericPrice == parseFloat(price) IN
  IF NumLess(numericPrice, MIN_PRICE)
    THEN Invalid("price", [text |-> "Price cannot be negative"])
  ELSE IF NumLess(MAX_PRICE, numericPrice)
    THEN Invalid("price", [text |-> "Price cannot exceed 99999999.99"])
  ELSE Valid

IsUnknownTag(tag) == ~Includes(VALID_CATEGORY_TAGS, tag)

\* validateCategoryTags with the whitelist compared without regard to case
validateCategoryTags_AnyCase(categoryTags) ==
  LET Lower(tag) == IF tag = "SPL" THEN "spl" ELSE tag
      IsUnknown(tag) == ~Includes(VALID_CATEGORY_TAGS, Lower(tag)) IN
  IF Len(categoryTags) = 0
    THEN Invalid("categoryTag", [text |-> "At least one category tag is required"])
  ELSE IF Len(categoryTags) > MAX_CATEGORY_TAGS
    THEN Invalid("categoryTag", [text |-> "Maximum 2 category tags allowed"])
  ELSE LET invalidTags == SelectSeq(categoryTags, IsUnknown) IN
       IF Len(invalidTags) > 0
         THEN Invalid("categoryTag",
                      [text |-> "Invalid category tags", tags |-> invalidTags])
       ELSE Valid

\* The reason of the whitelist failure is the text built from invalidTags
\* (invalidTags.join(", ")); the list is kept beside the text.
validateCategoryTags(categoryTags) ==
  IF Len(categoryTags) = 0
    THEN Invalid("categoryTag", [text |-> "At least one category tag is required"])
  ELSE IF Len(categoryTags) > MAX_CATEGORY_TAGS
    THEN Invalid("categoryTag", [text |-> "Maximum 2 category tags allowed"])
  ELSE LET invalidTags == SelectSeq(categoryTags, IsUnknownTag) IN
       IF Len(invalidTags) > 0
         THEN Invalid("categoryTag",
                      [text |-> "Invalid category tags", tags |-> invalidTags])
       ELSE Valid

\* validateCourseRating without the rule for free courses
validateCourseRating_RangeOnly(rating, price) ==
  IF rating \in {Undefined, Null} THEN Valid
  ELSE LET numericRating == parseFloat(rating) IN
       IF NumLess(numericRating, MIN_RATING) \/ NumLess(MAX_RATING, numericRating)
         THEN Invalid("rating", [text |-> "Rating must be between 1 and 5"])
       ELSE Valid

\* validateCourseRating with the free-course rule at 3.0 and above
validateCourseRating_FreeCapInclusive(rating, price) ==
  IF rating \in {Undefined, Null} THEN Valid
  ELSE LET numericRating == parseFloat(rating) IN
       IF NumLess(numericRating, MIN_RATING) \/ NumLess(MAX_RATING, numericRating)
         THEN Invalid("rating", [text |-> "Rating must be between 1 and 5"])
       ELSE IF NumIsZero(parseFloat(price)) /\ ~NumLess(numericRating, FREE_RATING_CAP)
         THEN Invalid("rating", [text |-> "Free courses cannot have ratings above 3.0"])
       ELSE Valid

validateCourseRating(rating, price) ==
  IF rating \in {Undefined, Null} THEN Valid
  ELSE LET numericRating == parseFloat(rating) IN
       IF NumLess(numericRating, MIN_RATING) \/ NumLess(MAX_RATING, numericRating)
         THEN Invalid("rating", [text |-> "Rating must be between 1 and 5"])
       ELSE IF NumIsZero(parseFloat(price)) /\ NumLess(FREE_RATING_CAP, numericRating)
         THEN Invalid("rating", [text |-> "Free courses cannot have ratings above 3.0"])
       ELSE Valid

\* A thumbnail string is [text, isUrl]: isUrl says whether new URL(text) parses.
validateThumbnailUrl(thumbnail) ==
  IF thumbnail \in {Undefined, Null} THEN Valid
  ELSE IF ~thumbnail.isUrl
    THEN Invalid("thumbnail", [text |-> "Thumbnail must be a valid URL"])
  ELSE Valid

Failure(r) == IF r.valid THEN <<>> ELSE <<r>>

validateCompleteCourse(courseData) ==
  (IF Has(courseData, "name")
     THEN Failure(validateCourseName(courseData.name)) ELSE <<>>)
  \o (IF Has(courseData, "price")
        THEN Failure(validateCoursePrice(courseData.price)) ELSE <<>>)
  \o (IF Has(courseData, "categoryTag")
        THEN Failure(validateCategoryTags(courseData.categoryTag)) ELSE <<>>)
  \o (IF Has(courseData, "rating") /\ Has(courseData, "price")
        THEN Failure(validateCourseRating(courseData.rating, courseData.price))
        ELSE <<>>)
  \o (IF Has(courseData, "thumbnail")
        THEN Failure(validateThumbnailUrl(courseData.thumbnail)) ELSE <<>>)

canCourseBeUpdated(course) == TRUE

canCourseBeDeleted(course, enrollmentCount) == enrollmentCount = 0

\* ------------------------------------------------------------- the store
\* Rows of the user table (lib/db/schema/auth); GhostUser is a session user
\* id with no row; NoUser is context.session?.user?.id being undefined.
Users == {"u1", "u2"}
GhostUser == "u9"
NoUser == ""

VARIABLES
  courses,           \* table course: id -> row
  enrollments,       \* table course_enrollment: id -> row
  nextCourseId,      \* generateUUID for course.id
  nextEnrollmentId,  \* generateUUID for course_enrollment.id
  now,               \* new Date(); requests here fall within one tick of it
  last,              \* the response of the latest request
  inflight,          \* request -> where its handler stands, with its locals
  todos,             \* table todo: id -> row
  nextTodoId,        \* generateUUID for todo.id
  toggles            \* todo id -> number of Toggle todo calls that succeeded

vars == <<courses, enrollments, nextCourseId, nextEnrollmentId, now, last,
          inflight, todos, nextTodoId, toggles>>

\* the requests that can be in flight at once
Requests == {"r1", "r2"}

Idle == [pc |-> "idle"]

\* what the operations on courses and enrollments leave alone
todoVars == <<todos, nextTodoId, toggles>>

Db == [courses |-> courses, enrollments |-> enrollments,
       nextCourseId |-> nextCourseId, nextEnrollmentId |-> nextEnrollmentId]

EmptyTable == [i \in {} |-> Null]

Remove(table, ids) == [i \in DOMAIN table \ ids |-> table[i]]

Put(table, id, row) == [i \in DOMAIN table \cup {id} |-> IF i = id THEN row ELSE table[i]]

\* the row a query without ORDER BY returns first: the oldest matching row
FirstOf(table, ids) ==
  IF ids = {} THEN Null ELSE table[CHOOSE i \in ids : \A j \in ids : i <= j]

\* foreign keys of lib/db/index.ts
UserExists(userId) == userId \in Users

\* -------------------------------------------------------- responses
Ok(value) == [ok |-> TRUE, value |-> value]
Err(code, data) == [ok |-> FALSE, code |-> code, data |-> data]

\* An error thrown by the store.  carriesCode says whether the driver's error
\* object has a property named "code".
StoreError(carriesCode) == [ok |-> FALSE, code |-> "STORE_ERROR", raw |-> TRUE,
                            carriesCode |-> carriesCode]

\* catch (dbError) of the handlers that wrap their body in try/catch
CatchDbError(thrown, reason) ==
  IF Has(thrown, "raw") /\ ~thrown.carriesCode
    THEN Err("VALIDATION_FAILED", [field |-> "database", reason |-> [text |-> reason]])
  ELSE thrown

\* ------------------------------------------------- CourseRepository
CourseRepository_findById(db, id) ==
  IF id \in DOMAIN db.courses THEN db.courses[id] ELSE Null

\* INSERT ... RETURNING: columns not given take their default or NULL
CourseRepository_create(db, input, t) ==
  LET id == db.nextCourseId
      row == [id |-> id,
              name |-> input.name,
              price |-> Numeric2(input.price),
              categoryTag |-> IF Has(input, "categoryTag") THEN input.categoryTag ELSE <<>>,
              thumbnail |-> IF Has(input, "thumbnail") THEN input.thumbnail ELSE Null,
              rating |-> IF Has(input, "rating") /\ input.rating # Null
                           THEN Numeric1(input.rating) ELSE Null,
              createdBy |-> IF Has(input, "createdBy") THEN input.createdBy ELSE NoUser,
              createdAt |-> t,
              updatedAt |-> t]
  IN IF row.createdBy # NoUser /\ ~UserExists(row.createdBy)
       THEN [db |-> db, thrown |-> TRUE]
     ELSE [db |-> [db EXCEPT !.courses = Put(@, id, row), !.nextCourseId = id + 1],
           thrown |-> FALSE, row |-> row]

\* CourseRepository.update that leaves updatedAt out of the SET
CourseRepository_update_KeepsUpdatedAt(db, id, input, t) ==
  IF id \notin DOMAIN db.courses THEN [db |-> db, row |-> Null]
  ELSE LET old == db.courses[id]
           row == [old EXCEPT
                     !.name = IF Has(input, "name") THEN input.name ELSE @,
                     !.price = IF Has(input, "price") THEN Numeric2(input.price) ELSE @,
                     !.categoryTag = IF Has(input, "categoryTag") THEN input.categoryTag ELSE @,
                     !.thumbnail = IF Has(input, "thumbnail") THEN input.thumbnail ELSE @,
                     !.rating = IF Has(input, "rating")
                                  THEN (IF input.rating = Null THEN Null
                                        ELSE Numeric1(input.rating))
                                  ELSE @]
       IN [db |-> [db EXCEPT !.courses = Put(@, id, row)], row |-> row]

\* CourseRepository.update as an upsert: a course that is gone is stored again
CourseRepository_update_Upsert(db, id, input, t) ==
  LET old == IF id \in DOMAIN db.courses THEN db.courses[id]
             ELSE [id |-> id, name |-> "X", price |-> Dec(0, <<0, 0>>),
                   categoryTag |-> <<>>, thumbnail |-> Null, rating |-> Null,
                   createdBy |-> NoUser, createdAt |-> t, updatedAt |-> t]
      row == [old EXCEPT
                !.name = IF Has(input, "name") THEN input.name ELSE @,
                !.price = IF Has(input, "price") THEN Numeric2(input.price) ELSE @,
                !.categoryTag = IF Has(input, "categoryTag") THEN input.categoryTag ELSE @,
                !.thumbnail = IF Has(input, "thumbnail") THEN input.thumbnail ELSE @,
                !.rating = IF Has(input, "rating")
                             THEN (IF input.rating = Null THEN Null
                                   ELSE Numeric1(input.rating))
                             ELSE @,
                !.updatedAt = t]
  IN [db |-> [db EXCEPT !.courses = Put(@, id, row)], row |-> row]

\* UPDATE ... SET only the keys of input ... RETURNING
CourseRepository_update(db, id, input, t) ==
  IF id \notin DOMAIN db.courses THEN [db |-> db, row |-> Null]
  ELSE LET old == db.courses[id]
           row == [old EXCEPT
                     !.name = IF Has(input, "name") THEN input.name ELSE @,
                     !.price = IF Has(input, "price") THEN Numeric2(input.price) ELSE @,
                     !.categoryTag = IF Has(input, "categoryTag") THEN input.categoryTag ELSE @,
                     !.thumbnail = IF Has(input, "thumbnail") THEN input.thumbnail ELSE @,
                     !.rating = IF Has(input, "rating")
                                  THEN (IF input.rating = Null THEN Null
                                        ELSE Numeric1(input.rating))
                                  ELSE @,
                     !.updatedAt = t]
       IN [db |-> [db EXCEPT !.courses = Put(@, id, row)], row |-> row]

\* CourseRepository.delete with course_enrollment.course_id ON DELETE
\* RESTRICT: no course is deleted while a row references it
CourseRepository_delete_Restrict(db, id) ==
  IF id \notin DOMAIN db.courses THEN [db |-> db, deleted |-> FALSE]
  ELSE IF \E e \in DOMAIN db.enrollments : db.enrollments[e].courseId = id
    THEN [db |-> db, deleted |-> FALSE]
  ELSE [db |-> [db EXCEPT !.courses = Remove(@, {id})], deleted |-> TRUE]

\* CourseRepository.delete that leaves the rows of course_enrollment alone
CourseRepository_delete_NoCascade(db, id) ==
  IF id \notin DOMAIN db.courses THEN [db |-> db, deleted |-> FALSE]
  ELSE [db |-> [db EXCEPT !.courses = Remove(@, {id})], deleted |-> TRUE]

\* DELETE ... RETURNING; course_enrollment.course_id is ON DELETE CASCADE
CourseRepository_delete(db, id) ==
  IF id \notin DOMAIN db.courses THEN [db |-> db, deleted |-> FALSE]
  ELSE [db |-> [db EXCEPT
                  !.courses = Remove(@, {id}),
                  !.enrollments =
                     Remove(@, {e \in DOMAIN @ : @[e].courseId = id})],
        deleted |-> TRUE]

\* --------------------------------------------- EnrollmentRepository
\* EnrollmentsOf with the course compared against the wrong column
EnrollmentsOf_WrongColumn(db, userId, courseId) ==
  {e \in DOMAIN db.enrollments :
     db.enrollments[e].userId = userId /\ db.enrollments[e].id = courseId}

EnrollmentsOf(db, userId, courseId) ==
  {e \in DOMAIN db.enrollments :
     db.enrollments[e].userId = userId /\ db.enrollments[e].courseId = courseId}

\* EnrollmentsOfUser without the condition on user_id
EnrollmentsOfUser_Everyone(db, userId) ==
  {e \in DOMAIN db.enrollments : TRUE}

EnrollmentsOfUser(db, userId) ==
  {e \in DOMAIN db.enrollments : db.enrollments[e].userId = userId}

EnrollmentsOfCourse(db, courseId) ==
  {e \in DOMAIN db.enrollments : db.enrollments[e].courseId = courseId}

\* with: { course: true }
WithCourse(db, row) ==
  [id |-> row.id, userId |-> row.userId, courseId |-> row.courseId,
   enrolledAt |-> row.enrolledAt,
   course |-> CourseRepository_findById(db, row.courseId)]

EnrollmentRepository_findById(db, id) ==
  IF id \in DOMAIN db.enrollments THEN WithCourse(db, db.enrollments[id]) ELSE Null

EnrollmentRepository_findByUserAndCourse(db, userId, courseId) ==
  FirstOf(db.enrollments, EnrollmentsOf(db, userId, courseId))

\* total of findByCourse: SELECT count(*) WHERE course_id = courseId
EnrollmentRepository_findByCourse_total(db, courseId) ==
  Cardinality(EnrollmentsOfCourse(db, courseId))

\* EnrollmentRepository.create that returns the row without inserting it
EnrollmentRepository_create_NoInsert(db, userId, courseId, t) ==
  LET id == db.nextEnrollmentId
      row == [id |-> id, userId |-> userId, courseId |-> courseId, enrolledAt |-> t]
  IN [db |-> [db EXCEPT !.nextEnrollmentId = id + 1], thrown |-> FALSE, row |-> row]

\* EnrollmentRepository.create on a table with UNIQUE (user_id, course_id)
EnrollmentRepository_create_UniquePair(db, userId, courseId, t) ==
  LET id == db.nextEnrollmentId
      row == [id |-> id, userId |-> userId, courseId |-> courseId, enrolledAt |-> t]
  IN IF \/ ~UserExists(userId)
        \/ courseId \notin DOMAIN db.courses
        \/ \E e \in DOMAIN db.enrollments :
             db.enrollments[e].userId = userId /\ db.enrollments[e].courseId = courseId
       THEN [db |-> db, thrown |-> TRUE]
     ELSE [db |-> [db EXCEPT !.enrollments = Put(@, id, row),
                             !.nextEnrollmentId = id + 1],
           thrown |-> FALSE, row |-> row]

EnrollmentRepository_create(db, userId, courseId, t) ==
  LET id == db.nextEnrollmentId
      row == [id |-> id, userId |-> userId, courseId |-> courseId, enrolledAt |-> t]
  IN IF ~UserExists(userId) \/ courseId \notin DOMAIN db.courses
       THEN [db |-> db, thrown |-> TRUE]
     ELSE [db |-> [db EXCEPT !.enrollments = Put(@, id, row),
                             !.nextEnrollmentId = id + 1],
           thrown |-> FALSE, row |-> row]

EnrollmentRepository_delete(db, id) ==
  IF id \notin DOMAIN db.enrollments THEN [db |-> db, deleted |-> FALSE]
  ELSE [db |-> [db EXCEPT !.enrollments = Remove(@, {id})], deleted |-> TRUE]

\* ------------------------------------------------ EnrollmentService
\* courseId 0 stands for the empty string, which no generated id is
validateEnrollmentData(courseId, userId) ==
  IF courseId = 0 THEN Invalid("courseId", [text |-> "Course ID is required"])
  ELSE IF userId = "" THEN Invalid("userId", [text |-> "User ID is required"])
  ELSE Valid

\* Whether db.query.users, db.query.courses and db.query.enrollments, the
\* names the service reads the store by, are query handles of the schema that
\* lib/db/schema/index.ts exports.  The specification describes the check as
\* querying the store for the user, the course and the prior enrollment.
ServiceQueriesResolve == TRUE

\* db.query.users / courses / enrollments findFirst, in this order, inside
\* try/catch: anything thrown becomes canEnroll false
validateUserCanEnroll(userId, courseId, db) ==
  LET basicValidation == validateEnrollmentData(courseId, userId) IN
  IF ~basicValidation.valid
    THEN [canEnroll |-> FALSE, reason |-> basicValidation.reason.text]
  ELSE IF ~ServiceQueriesResolve
    THEN [canEnroll |-> FALSE, reason |-> "Validation failed due to database error"]
  ELSE IF ~UserExists(userId)
    THEN [canEnroll |-> FALSE, reason |-> "User not found"]
  ELSE IF courseId \notin DOMAIN db.courses
    THEN [canEnroll |-> FALSE, reason |-> "Course not found"]
  ELSE LET existingEnrollment == FirstOf(db.enrollments, EnrollmentsOf(db, userId, courseId)) IN
       IF existingEnrollment # Null
         THEN [canEnroll |-> FALSE,
               reason |-> "User is already enrolled in this course",
               details |-> [enrollmentId |-> existingEnrollment.id]]
       ELSE [canEnroll |-> TRUE]

getEnrollmentDisplayInformation(enrollment, course) ==
  [enrollmentStatus |-> "Active",
   enrollmentDateDisplay |-> enrollment.enrolledAt,
   courseTitle |-> IF course = Null THEN Undefined ELSE course.name,
   coursePriceDisplay |-> IF course = Null THEN [text |-> "Free"]
                          ELSE [text |-> "Rp ", price |-> course.price],
   progressPercentage |-> 0]

\* ------------------------------------------------------ the handlers
\* Each handler is an operator from the store, the caller and the input to
\* the store it leaves and the response: a value returned or an error thrown.
Reply(db, response) == [db |-> db, response |-> response]

PriceAsNumber(course) ==
  IF course = Null THEN Undefined ELSE [course EXCEPT !.price = parseFloat(@)]

\* enrollCourse that asks the service before it looks at the session
enrollCourse_ServiceFirst(db, userId, courseId, t, carriesCode) ==
  LET validationResult == validateUserCanEnroll(userId, courseId, db) IN
  IF ~validationResult.canEnroll
    THEN Reply(db, Err("ALREADY_ENROLLED", [userId |-> userId, courseId |-> courseId]))
  ELSE IF userId = NoUser
    THEN Reply(db, Err("UNAUTHORIZED", [operation |-> "enroll-course"]))
  ELSE
  LET created == EnrollmentRepository_create(db, userId, courseId, t) IN
  IF created.thrown
    THEN Reply(db, CatchDbError(StoreError(carriesCode), "Failed to enroll in course"))
  ELSE Reply(created.db,
             Ok([EnrollmentRepository_findById(created.db, created.row.id)
                   EXCEPT !.course = PriceAsNumber(@)]))

enrollCourse(db, userId, courseId, t, carriesCode) ==
  IF userId = NoUser
    THEN Reply(db, Err("UNAUTHORIZED", [operation |-> "enroll-course"]))
  ELSE
  LET validationResult == validateUserCanEnroll(userId, courseId, db) IN
  IF ~validationResult.canEnroll
    THEN Reply(db, Err("ALREADY_ENROLLED", [userId |-> userId, courseId |-> courseId]))
  ELSE
  LET course == CourseRepository_findById(db, courseId) IN
  IF course = Null
    THEN Reply(db, Err("COURSE_NOT_FOUND", [courseId |-> courseId]))
  ELSE
  LET existingEnrollment == EnrollmentRepository_findByUserAndCourse(db, userId, courseId) IN
  IF existingEnrollment # Null
    THEN Reply(db, Err("ALREADY_ENROLLED",
                       [userId |-> userId, courseId |-> courseId,
                        enrollmentId |-> existingEnrollment.id]))
  ELSE
  LET created == EnrollmentRepository_create(db, userId, courseId, t) IN
  IF created.thrown
    THEN Reply(db, CatchDbError(StoreError(carriesCode), "Failed to enroll in course"))
  ELSE
  LET enrollmentWithCourse == EnrollmentRepository_findById(created.db, created.row.id) IN
  IF enrollmentWithCourse = Null
    THEN Reply(created.db,
               Err("ENROLLMENT_FAILED",
                   [userId |-> userId, courseId |-> courseId,
                    reason |-> "Failed to retrieve created enrollment"]))
  ELSE Reply(created.db,
             Ok([enrollmentWithCourse EXCEPT !.course = PriceAsNumber(@)]))

\* getCourse that converts the price to a number, as the enrollment handlers do
getCourse_PriceAsNumber(db, id) ==
  LET course == CourseRepository_findById(db, id) IN
  IF course = Null THEN Reply(db, Err("NOT_FOUND", [id |-> id]))
  ELSE Reply(db, Ok(PriceAsNumber(course)))

getCourse(db, id) ==
  LET course == CourseRepository_findById(db, id) IN
  IF course = Null THEN Reply(db, Err("NOT_FOUND", [id |-> id]))
  ELSE Reply(db, Ok(course))

FirstError(validationResults) ==
  Err("VALIDATION_FAILED",
      [field |-> validationResults[1].field, reason |-> validationResults[1].reason])

\* createCourse that passes the input on without the creator
createCourse_NoAttribution(db, creatorId, input, t, carriesCode) ==
  LET validationResults == validateCompleteCourse(input) IN
  IF Len(validationResults) > 0 THEN Reply(db, FirstError(validationResults))
  ELSE
  LET created == CourseRepository_create(db, input, t) IN
  IF created.thrown
    THEN Reply(db, CatchDbError(StoreError(carriesCode), "Failed to create course"))
  ELSE Reply(created.db, Ok(created.row))

createCourse(db, creatorId, input, t, carriesCode) ==
  LET validationResults == validateCompleteCourse(input) IN
  IF Len(validationResults) > 0 THEN Reply(db, FirstError(validationResults))
  ELSE
  LET courseData == [createdBy |-> creatorId] @@ input
      created == CourseRepository_create(db, courseData, t) IN
  IF created.thrown
    THEN Reply(db, CatchDbError(StoreError(carriesCode), "Failed to create course"))
  ELSE Reply(created.db, Ok(created.row))

\* updateCourse that validates the request before it looks the course up
updateCourse_ValidatesFirst(db, id, data, t) ==
  LET validationResults == validateCompleteCourse(data) IN
  IF Len(validationResults) > 0 THEN Reply(db, FirstError(validationResults))
  ELSE
  LET updated == CourseRepository_update(db, id, data, t) IN
  IF updated.row = Null THEN Reply(updated.db, Err("NOT_FOUND", [id |-> id]))
  ELSE Reply(updated.db, Ok(updated.row))

updateCourse(db, id, data, t) ==
  LET existingCourse == CourseRepository_findById(db, id) IN
  IF existingCourse = Null THEN Reply(db, Err("NOT_FOUND", [id |-> id]))
  ELSE
  LET courseForValidation == data @@ existingCourse
      validationResults == validateCompleteCourse(courseForValidation) IN
  IF Len(validationResults) > 0 THEN Reply(db, FirstError(validationResults))
  ELSE IF ~canCourseBeUpdated(existingCourse)
    THEN Reply(db, Err("CANNOT_UPDATE",
                       [id |-> id, reason |-> "Course cannot be updated in current state"]))
  ELSE
  LET updated == CourseRepository_update(db, id, data, t) IN
  IF updated.row = Null THEN Reply(updated.db, Err("NOT_FOUND", [id |-> id]))
  ELSE Reply(updated.db, Ok(updated.row))

\* deleteCourse without the count of enrollments
deleteCourse_NoCount(db, id) ==
  LET existingCourse == CourseRepository_findById(db, id) IN
  IF existingCourse = Null THEN Reply(db, Err("NOT_FOUND", [id |-> id]))
  ELSE
  LET deleted == CourseRepository_delete(db, id) IN
  IF ~deleted.deleted THEN Reply(deleted.db, Err("NOT_FOUND", [id |-> id]))
  ELSE Reply(deleted.db, Ok([success |-> TRUE, id |-> id]))

deleteCourse(db, id) ==
  LET existingCourse == CourseRepository_findById(db, id) IN
  IF existingCourse = Null THEN Reply(db, Err("NOT_FOUND", [id |-> id]))
  ELSE
  LET total == EnrollmentRepository_findByCourse_total(db, id) IN
  IF total > 0
    THEN Reply(db, Err("CANNOT_DELETE",
                       [id |-> id,
                        reason |-> [text |-> "Course has N active enrollments",
                                    N |-> total]]))
  ELSE
  LET deleted == CourseRepository_delete(db, id) IN
  IF ~deleted.deleted THEN Reply(deleted.db, Err("NOT_FOUND", [id |-> id]))
  ELSE Reply(deleted.db, Ok([success |-> TRUE, id |-> id]))

\* ------------------------------------------------------ getMyCourses
Min(a, b) == IF a < b THEN a ELSE b

\* ORDER BY enrolled_at DESC: the orders the store may return the rows in
OrderedByEnrolledAtDesc(db, ids) ==
  {s \in [1..Cardinality(ids) -> ids] :
     /\ \A i, j \in DOMAIN s : i # j => s[i] # s[j]
     /\ \A i, j \in DOMAIN s :
          i < j => db.enrollments[s[i]].enrolledAt >= db.enrollments[s[j]].enrolledAt}

\* LIMIT limit OFFSET offset
Page(s, limit, offset) == SubSeq(s, offset + 1, Min(offset + limit, Len(s)))

EnrollmentRepository_findByUser(db, userId, limit, offset, order) ==
  [enrollments |-> [i \in DOMAIN Page(order, limit, offset) |->
                      WithCourse(db, db.enrollments[Page(order, limit, offset)[i]])],
   total |-> Cardinality(EnrollmentsOfUser(db, userId))]

ToCents(n) == 100 * n.whole + n.cents

RECURSIVE SumOfPrices(_)
SumOfPrices(rows) ==
  IF Len(rows) = 0 THEN 0
  ELSE (IF rows[1].course = Null THEN 0 ELSE ToCents(parseFloat(rows[1].course.price)))
       + SumOfPrices(Tail(rows))

calculateEnrollmentStatistics(rows) ==
  LET totalSpent == SumOfPrices(rows) IN
  [totalEnrollments |-> Len(rows),
   activeEnrollments |-> Len(rows),
   completedEnrollments |-> 0,
   totalSpent |-> [cents |-> totalSpent],
   averageCoursePrice |-> IF Len(rows) > 0
                            THEN [cents |-> totalSpent, dividedBy |-> Len(rows)]
                            ELSE [cents |-> 0, dividedBy |-> 1],
   enrolledCategories |->
     UNION {IF rows[i].course = Null THEN {} ELSE Range(rows[i].course.categoryTag) :
              i \in DOMAIN rows}]

getMyCourses(db, userId, input, order) ==
  LET limit == IF Has(input, "limit") THEN input.limit ELSE DEFAULT_LIMIT
      offset == IF Has(input, "offset") THEN input.offset ELSE 0 IN
  IF userId = NoUser
    THEN Reply(db, Err("UNAUTHORIZED", [operation |-> "get-my-courses"]))
  ELSE
  LET result == EnrollmentRepository_findByUser(db, userId, limit, offset, order) IN
  Reply(db,
        Ok([enrollments |->
              [i \in DOMAIN result.enrollments |->
                 [result.enrollments[i] EXCEPT !.course = PriceAsNumber(@)]
                 @@ [display |-> getEnrollmentDisplayInformation(
                                   result.enrollments[i], result.enrollments[i].course)]],
            total |-> result.total,
            limit |-> limit,
            offset |-> offset,
            statistics |-> calculateEnrollmentStatistics(result.enrollments)]))

\* ------------------------------------------------------- getCourses
\* categoryTag @> ARRAY[tag] for some tag of the filter; no filter, or an
\* empty one, adds no condition
\* MatchesFilter with the conditions joined by and instead of or
MatchesFilter_All(row, input) ==
  \/ ~Has(input, "categoryTag")
  \/ Len(input.categoryTag) = 0
  \/ \A i \in DOMAIN input.categoryTag : Includes(row.categoryTag, input.categoryTag[i])

MatchesFilter(row, input) ==
  \/ ~Has(input, "categoryTag")
  \/ Len(input.categoryTag) = 0
  \/ \E i \in DOMAIN input.categoryTag : Includes(row.categoryTag, input.categoryTag[i])

CoursesMatching(db, input) ==
  {id \in DOMAIN db.courses : MatchesFilter(db.courses[id], input)}

\* ORDER BY created_at DESC: the orders the store may return the rows in
OrderedByCreatedAtDesc(db, ids) ==
  {s \in [1..Cardinality(ids) -> ids] :
     /\ \A i, j \in DOMAIN s : i # j => s[i] # s[j]
     /\ \A i, j \in DOMAIN s :
          i < j => db.courses[s[i]].createdAt >= db.courses[s[j]].createdAt}

\* order is the store's ordering of all the matching rows
CourseRepository_list(db, input, order) ==
  LET limit == IF Has(input, "limit") THEN input.limit ELSE DEFAULT_LIMIT
      offset == IF Has(input, "offset") THEN input.offset ELSE 0
      page == Page(order, limit, offset) IN
  [courses |-> [i \in DOMAIN page |-> db.courses[page[i]]],
   total |-> Cardinality(CoursesMatching(db, input))]

\* if (x && ...) on a number: undefined and 0 are falsy
Truthy(input, key) == Has(input, key) /\ input[key] # 0

getCourses(db, input, order) ==
  LET categoryValidation ==
        IF Has(input, "categoryTag") /\ Len(input.categoryTag) > 0
          THEN validateCategoryTags(input.categoryTag) ELSE Valid IN
  IF ~categoryValidation.valid
    THEN Reply(db, Err("INVALID_CATEGORY_TAGS",
                       [tags |-> input.categoryTag, reason |-> categoryValidation.reason]))
  ELSE IF Truthy(input, "limit") /\ input.limit < 1
    THEN Reply(db, Err("VALIDATION_FAILED",
                       [field |-> "limit", reason |-> [text |-> "Limit must be at least 1"]]))
  ELSE IF Truthy(input, "limit") /\ input.limit > MAX_LIMIT
    THEN Reply(db, Err("VALIDATION_FAILED",
                       [field |-> "limit", reason |-> [text |-> "Limit cannot exceed 100"]]))
  ELSE IF Truthy(input, "offset") /\ input.offset < 0
    THEN Reply(db, Err("VALIDATION_FAILED",
                       [field |-> "offset", reason |-> [text |-> "Offset cannot be negative"]]))
  ELSE
  LET result == CourseRepository_list(db, input, order) IN
  Reply(db, Ok([k \in {"limit", "offset"} \cap DOMAIN input |-> input[k]]
               @@ [courses |-> result.courses, total |-> result.total]))

\* ------------------------------------- the second definition of createCourse
\* part_003 defines createCourse a second time, without validateCompleteCourse
\* and without try/catch: what the store throws leaves the handler as it is.
createCourse2(db, creatorId, input, t, carriesCode) ==
  LET courseData == [createdBy |-> creatorId] @@ input
      created == CourseRepository_create(db, courseData, t) IN
  IF created.thrown THEN Reply(db, StoreError(carriesCode))
  ELSE Reply(created.db, Ok(created.row))

\* ------------------------------------------------ a store call that throws
\* What leaves each handler when a repository call it awaits throws (the
\* connection is lost, a constraint is violated): the handler's catch, where
\* it has one.
Operations ==
  {"getCourses", "getCourse", "createCourse", "updateCourse", "deleteCourse",
   "enroll", "getMyCourses"}

DatabaseFailure(reason) ==
  Err("VALIDATION_FAILED", [field |-> "database", reason |-> [text |-> reason]])

OnStoreFailure(op, carriesCode) ==
  CASE op = "getCourses" -> DatabaseFailure("Failed to retrieve courses")
    [] op = "getCourse" -> CatchDbError(StoreError(carriesCode), "Failed to retrieve course")
    [] op = "createCourse" -> CatchDbError(StoreError(carriesCode), "Failed to create course")
    [] op = "updateCourse" -> CatchDbError(StoreError(carriesCode), "Failed to update course")
    [] op = "enroll" -> CatchDbError(StoreError(carriesCode), "Failed to enroll in course")
    [] op = "deleteCourse" -> StoreError(carriesCode)
    [] op = "getMyCourses" -> StoreError(carriesCode)

\* the error kinds of oc.errors that the contract of each operation is built on
courseErrors ==
  {"NOT_FOUND", "VALIDATION_FAILED", "INVALID_PRICE", "INVALID_CATEGORY_TAGS",
   "INVALID_RATING", "FREE_COURSE_HIGH_RATING", "PRAKERJA_PRICE_EXCEEDED",
   "CREATOR_NOT_FOUND", "UNAUTHORIZED_ACCESS", "CANNOT_DELETE", "CANNOT_UPDATE"}

enrollmentErrors ==
  {"NOT_FOUND", "COURSE_NOT_FOUND", "USER_NOT_FOUND", "ALREADY_ENROLLED",
   "ENROLLMENT_FAILED", "CANNOT_UNENROLL", "UNAUTHORIZED_ACCESS",
   "VALIDATION_FAILED", "UNAUTHORIZED"}

DeclaredErrors(op) ==
  IF op \in {"enroll", "getMyCourses"} THEN enrollmentErrors ELSE courseErrors

\* ------------------------------------------------- the boundary schemas
\* CourseBaseSchemas.price has .default('0.00') and categoryTag has
\* .default([]); the schemas use .meta(), the Zod 4 API, where a default inside
\* .optional() is applied when the key is missing.  name has .trim().
SchemaDefaults == [price |-> Dec(0, <<0, 0>>), categoryTag |-> <<>>]

\* ParseCourseInput where .optional() passes a missing key through and the
\* default inside it is never applied
ParseCourseInput_NoDefaults(raw) ==
  [k \in DOMAIN raw |-> IF k = "name" THEN Trim(raw[k]) ELSE raw[k]]

ParseCourseInput(raw) ==
  [k \in DOMAIN raw \cup DOMAIN SchemaDefaults |->
     IF k \notin DOMAIN raw THEN SchemaDefaults[k]
     ELSE IF k = "name" THEN Trim(raw[k])
     ELSE raw[k]]

\* CourseBaseSchemas.price on output: a string that matches
\* /^\d+(\.\d{1,2})?$/; a number is not a string
CourseBaseSchemas_price(v) == DOMAIN v = {"w", "f"} /\ Len(v.f) <= 2

\* z.object of CourseOutputSchemas.course, for the fields with a representation
CourseOutputSchemas_course(v) ==
  /\ Has(v, "price")
  /\ CourseBaseSchemas_price(v.price)
  /\ Has(v, "rating") => (v.rating = Null \/ (DOMAIN v.rating = {"w", "f"} /\ Len(v.rating.f) <= 1))

\* course: CourseOutputSchemas.course.optional()
EnrollmentOutputSchemas_enrollmentWithCourse(v) ==
  /\ {"id", "userId", "courseId", "enrolledAt"} \subseteq DOMAIN v
  /\ (Has(v, "course") /\ v.course # Undefined) => CourseOutputSchemas_course(v.course)

EnrollmentOutputSchemas_myCourses(v) ==
  /\ Has(v, "enrollments")
  /\ \A i \in DOMAIN v.enrollments :
       EnrollmentOutputSchemas_enrollmentWithCourse(v.enrollments[i])

\* ------------------------------------------------------------ requests
Callers == Users \cup {GhostUser, NoUser}

\* ids a request may name: generated ones and ones never generated
CourseIds == 1..MaxCourses
EnrollmentIds == 1..MaxEnrollments

NoFields == [k \in {} |-> Null]

Free == Dec(0, <<0, 0>>)
Zero == Dec(0, <<>>)
Paid == Dec(100, <<0, 0>>)
Rating30 == Dec(3, <<0>>)
Rating45 == Dec(4, <<5>>)

\* request bodies that pass the boundary schema of create
CreateBodies ==
  { [name |-> "X", price |-> Free, categoryTag |-> <<"prakerja">>],
    [name |-> "X", price |-> Paid, categoryTag |-> <<"spl">>, rating |-> Rating45],
    [name |-> "X", price |-> Zero, categoryTag |-> <<"prakerja", "spl">>, rating |-> Rating30],
    [name |-> "X", price |-> Zero, categoryTag |-> <<"spl">>, rating |-> Rating45],
    [name |-> "X", price |-> Paid],
    [name |-> "X", categoryTag |-> <<"spl">>, rating |-> Rating45],
    [name |-> "X", price |-> Paid, categoryTag |-> <<"foo">>],
    [name |-> "X", price |-> Paid, categoryTag |-> <<"spl", "prakerja", "spl">>],
    [name |-> " ", price |-> Paid, categoryTag |-> <<"spl">>] }

\* request bodies that pass the boundary schema of update
UpdateBodies ==
  { [price |-> Zero],
    [rating |-> Rating45],
    [price |-> Zero, categoryTag |-> <<"prakerja">>],
    [price |-> Paid, categoryTag |-> <<"prakerja", "spl">>],
    [categoryTag |-> <<"spl">>, rating |-> Rating45],
    [price |-> Paid, categoryTag |-> <<"spl">>, rating |-> Rating45],
    [price |-> Paid, categoryTag |-> <<"spl">>, rating |-> Null],
    [price |-> Paid, categoryTag |-> <<"SPL">>],
    [categoryTag |-> <<"prakerja">>],
    [name |-> "Y"] }

\* the bodies used where the catalog is only the background of enrollment
FewCreateBodies ==
  { [name |-> "X", price |-> Free, categoryTag |-> <<"prakerja">>],
    [name |-> "X", price |-> Paid, categoryTag |-> <<"foo">>] }

FewUpdateBodies ==
  { [price |-> Paid, categoryTag |-> <<"prakerja">>],
    [name |-> "Y"] }

PageInputs == {NoFields, [limit |-> 1, offset |-> 1]}

\* ------------------------------------------------------------- actions
Init ==
  /\ courses = EmptyTable
  /\ enrollments = EmptyTable
  /\ nextCourseId = 1
  /\ nextEnrollmentId = 1
  /\ now = 0
  /\ inflight = [r \in Requests |-> Idle]
  /\ todos = EmptyTable
  /\ nextTodoId = 1
  /\ toggles = EmptyTable
  /\ last = [op |-> "none"]

Commit(op, request, reply) ==
  /\ courses' = reply.db.courses
  /\ enrollments' = reply.db.enrollments
  /\ nextCourseId' = reply.db.nextCourseId
  /\ nextEnrollmentId' = reply.db.nextEnrollmentId
  /\ last' = [op |-> op, request |-> request, response |-> reply.response]
  /\ UNCHANGED <<now, inflight, todoVars>>

Enroll ==
  \E userId \in Callers, courseId \in CourseIds, carriesCode \in BOOLEAN :
    LET reply == enrollCourse(Db, userId, courseId, now, carriesCode) IN
    /\ reply.db.nextEnrollmentId <= MaxEnrollments + 1
    /\ Commit("enroll", [userId |-> userId, courseId |-> courseId], reply)

GetMyCourses ==
  \E userId \in Callers, input \in PageInputs :
    \E order \in OrderedByEnrolledAtDesc(Db, EnrollmentsOfUser(Db, userId)) :
      Commit("getMyCourses", [userId |-> userId, input |-> input],
             getMyCourses(Db, userId, input, order))

GetCourse ==
  \E id \in CourseIds :
    Commit("getCourse", [id |-> id], getCourse(Db, id))

CreateCourse(callers, bodies) ==
  \E creatorId \in callers, body \in bodies, carriesCode \in BOOLEAN :
    LET reply == createCourse(Db, creatorId, ParseCourseInput(body), now, carriesCode) IN
    /\ reply.db.nextCourseId <= MaxCourses + 1
    /\ Commit("createCourse", [userId |-> creatorId, body |-> body], reply)

UpdateCourse(bodies) ==
  \E id \in CourseIds, body \in bodies :
    Commit("updateCourse", [id |-> id, body |-> body],
           updateCourse(Db, id, ParseCourseInput(body), now))

DeleteCourse ==
  \E id \in CourseIds :
    Commit("deleteCourse", [id |-> id], deleteCourse(Db, id))

\* EnrollmentRepository.delete, the repository's unenrollment
Unenroll ==
  \E id \in EnrollmentIds :
    Commit("unenroll", [id |-> id],
           LET r == EnrollmentRepository_delete(Db, id) IN
           Reply(r.db, Ok([success |-> r.deleted])))

\* Enrollment over a small catalog: every operation, requests one at a time
Next ==
  \/ Enroll
  \/ GetMyCourses
  \/ GetCourse
  \/ CreateCourse({NoUser}, FewCreateBodies)
  \/ UpdateCourse(FewUpdateBodies)
  \/ DeleteCourse
  \/ Unenroll

Spec == Init /\ [][Next]_vars

\* The catalog alone: the course operations over the richer request bodies
NextCourse ==
  \/ GetCourse
  \/ CreateCourse({"u1", GhostUser}, CreateBodies)
  \/ UpdateCourse(UpdateBodies)
  \/ DeleteCourse

SpecCourse == Init /\ [][NextCourse]_vars

\* ---------------------------------------------------- listing courses
\* inputs as they reach the list handler, whether or not the boundary schema
\* would let them through
ListInputs ==
  { NoFields,
    [limit |-> 1],
    [limit |-> 0],
    [limit |-> 0 - 1],
    [limit |-> MAX_LIMIT + 1],
    [limit |-> MAX_LIMIT, offset |-> 0],
    [offset |-> 0 - 1],
    [limit |-> 1, offset |-> 1, categoryTag |-> <<>>],
    [categoryTag |-> <<"spl">>],
    [limit |-> 1, categoryTag |-> <<"prakerja", "spl">>],
    [categoryTag |-> <<"foo">>],
    [categoryTag |-> <<"spl", "foo">>] }

FewListInputs == {NoFields, [limit |-> 0 - 1], [categoryTag |-> <<"foo">>]}

ListCreateBodies ==
  { [name |-> "X", price |-> Free, categoryTag |-> <<"prakerja">>],
    [name |-> "X", price |-> Paid, categoryTag |-> <<"spl">>],
    [name |-> "X", price |-> Paid, categoryTag |-> <<"prakerja", "spl">>] }

ListCourses(inputs) ==
  \E input \in inputs :
    \E order \in OrderedByCreatedAtDesc(Db, CoursesMatching(Db, input)) :
      Commit("getCourses", [input |-> input], getCourses(Db, input, order))

NextList ==
  \/ ListCourses(ListInputs)
  \/ CreateCourse({NoUser}, ListCreateBodies)
  \/ DeleteCourse

SpecList == Init /\ [][NextList]_vars

\* --------------------------------------------------- the catalog in time
\* the clock of new Date() moves on between requests
Tick ==
  /\ now < MaxClock
  /\ now' = now + 1
  /\ UNCHANGED <<courses, enrollments, nextCourseId, nextEnrollmentId, last,
                 inflight, todoVars>>

\* the bodies used where the clock is what varies
TimedCreateBodies == { [name |-> "X", price |-> Free, categoryTag |-> <<"prakerja">>] }

TimedUpdateBodies == { [price |-> Paid, categoryTag |-> <<"prakerja">>] }

NextTimed ==
  \/ Tick
  \/ GetCourse
  \/ CreateCourse({NoUser, "u1"}, TimedCreateBodies)
  \/ UpdateCourse(TimedUpdateBodies)
  \/ DeleteCourse

SpecTimed == Init /\ [][NextTimed]_vars

\* ------------------------------------------ requests whose store call throws
FailingRequest ==
  \E op \in Operations, carriesCode \in BOOLEAN :
    /\ last' = [op |-> op, request |-> [storeFails |-> TRUE],
                response |-> OnStoreFailure(op, carriesCode)]
    /\ UNCHANGED <<courses, enrollments, nextCourseId, nextEnrollmentId, now,
                   inflight, todoVars>>

\* every operation, and the store failing under any of them
NextFailure ==
  \/ Next
  \/ ListCourses(FewListInputs)
  \/ CreateCourse({GhostUser}, FewCreateBodies)
  \/ FailingRequest

SpecFailure == Init /\ [][NextFailure]_vars

\* ------------------------- the catalog served by the second createCourse
CreateCourse2(callers, bodies) ==
  \E creatorId \in callers, body \in bodies, carriesCode \in BOOLEAN :
    LET reply == createCourse2(Db, creatorId, ParseCourseInput(body), now, carriesCode) IN
    /\ reply.db.nextCourseId <= MaxCourses + 1
    /\ Commit("createCourse", [userId |-> creatorId, body |-> body], reply)

NextCreate2 ==
  \/ GetCourse
  \/ CreateCourse2({NoUser, GhostUser}, CreateBodies)
  \/ UpdateCourse(FewUpdateBodies)
  \/ DeleteCourse

SpecCreate2 == Init /\ [][NextCreate2]_vars

\* The category tag validator alone: a list is drawn, then validated
\* ------------------------------------------- handlers that interleave
\* A handler runs from one await to the next without interruption; between
\* two awaits the handlers of other requests may run.  Each store call is one
\* statement, which the store executes atomically; no handler opens a
\* transaction.

\* the handler of request r stops at its next await
Await(r, db, frame) ==
  /\ courses' = db.courses
  /\ enrollments' = db.enrollments
  /\ nextCourseId' = db.nextCourseId
  /\ nextEnrollmentId' = db.nextEnrollmentId
  /\ inflight' = [inflight EXCEPT ![r] = frame]
  /\ UNCHANGED <<now, last, todoVars>>

\* the handler of request r returns or throws
Settle(r, op, request, reply) ==
  /\ courses' = reply.db.courses
  /\ enrollments' = reply.db.enrollments
  /\ nextCourseId' = reply.db.nextCourseId
  /\ nextEnrollmentId' = reply.db.nextEnrollmentId
  /\ last' = [op |-> op, request |-> request, response |-> reply.response]
  /\ inflight' = [inflight EXCEPT ![r] = Idle]
  /\ UNCHANGED <<now, todoVars>>

\* the authenticated caller of the interleaved Enroll requests
RaceUsers == {"u1"}

\* enrollCourse up to the answer of EnrollmentService.validateUserCanEnroll
EnrollValidate(r) ==
  /\ inflight[r] = Idle
  /\ \E userId \in RaceUsers, courseId \in CourseIds :
       LET request == [userId |-> userId, courseId |-> courseId]
           validationResult == validateUserCanEnroll(userId, courseId, Db) IN
       IF ~validationResult.canEnroll
         THEN Settle(r, "enroll", request,
                     Reply(Db, Err("ALREADY_ENROLLED",
                                   [userId |-> userId, courseId |-> courseId])))
       ELSE Await(r, Db, [pc |-> "enroll.findCourse", request |-> request])

\* ... up to the answer of CourseRepository.findById
EnrollFindCourse(r) ==
  /\ inflight[r].pc = "enroll.findCourse"
  /\ LET request == inflight[r].request
         course == CourseRepository_findById(Db, request.courseId) IN
     IF course = Null
       THEN Settle(r, "enroll", request,
                   Reply(Db, Err("COURSE_NOT_FOUND", [courseId |-> request.courseId])))
     ELSE Await(r, Db, [pc |-> "enroll.findExisting", request |-> request])

\* ... up to the answer of EnrollmentRepository.findByUserAndCourse
EnrollFindExisting(r) ==
  /\ inflight[r].pc = "enroll.findExisting"
  /\ LET request == inflight[r].request
         existingEnrollment ==
           EnrollmentRepository_findByUserAndCourse(Db, request.userId, request.courseId) IN
     IF existingEnrollment # Null
       THEN Settle(r, "enroll", request,
                   Reply(Db, Err("ALREADY_ENROLLED",
                                 [userId |-> request.userId, courseId |-> request.courseId,
                                  enrollmentId |-> existingEnrollment.id])))
     ELSE Await(r, Db, [pc |-> "enroll.create", request |-> request])

\* ... up to the answer of EnrollmentRepository.create
EnrollCreate(r) ==
  /\ inflight[r].pc = "enroll.create"
  /\ \E carriesCode \in BOOLEAN :
       LET request == inflight[r].request
           created == EnrollmentRepository_create(Db, request.userId, request.courseId, now) IN
       IF created.thrown
         THEN Settle(r, "enroll", request @@ [insertRefused |-> TRUE],
                     Reply(Db, CatchDbError(StoreError(carriesCode),
                                            "Failed to enroll in course")))
       ELSE /\ created.db.nextEnrollmentId <= MaxEnrollments + 1
            /\ Await(r, created.db,
                     [pc |-> "enroll.findById", request |-> request,
                      newEnrollment |-> created.row])

\* ... up to the answer of EnrollmentRepository.findById and to the end;
\* storeFails: this store call throws
EnrollFindById(r) ==
  /\ inflight[r].pc = "enroll.findById"
  /\ \E storeFails \in BOOLEAN, carriesCode \in BOOLEAN :
       LET request == inflight[r].request @@ [newEnrollmentId |-> inflight[r].newEnrollment.id]
           enrollmentWithCourse ==
             EnrollmentRepository_findById(Db, inflight[r].newEnrollment.id) IN
       IF storeFails
         THEN Settle(r, "enroll", request,
                     Reply(Db, CatchDbError(StoreError(carriesCode),
                                            "Failed to enroll in course")))
       ELSE IF enrollmentWithCourse = Null
         THEN Settle(r, "enroll", request,
                     Reply(Db, Err("ENROLLMENT_FAILED",
                                   [userId |-> request.userId, courseId |-> request.courseId,
                                    reason |-> "Failed to retrieve created enrollment"])))
       ELSE Settle(r, "enroll", request,
                   Reply(Db, Ok([enrollmentWithCourse EXCEPT !.course = PriceAsNumber(@)])))

\* deleteCourse up to the answer of CourseRepository.findById
DeleteFindCourse(r) ==
  /\ inflight[r] = Idle
  /\ \E id \in CourseIds :
       LET request == [id |-> id]
           existingCourse == CourseRepository_findById(Db, id) IN
       IF existingCourse = Null
         THEN Settle(r, "deleteCourse", request, Reply(Db, Err("NOT_FOUND", [id |-> id])))
       ELSE Await(r, Db, [pc |-> "delete.findByCourse", request |-> request])

\* ... up to the answer of EnrollmentRepository.findByCourse
DeleteCountEnrollments(r) ==
  /\ inflight[r].pc = "delete.findByCourse"
  /\ LET request == inflight[r].request
         total == EnrollmentRepository_findByCourse_total(Db, request.id) IN
     IF total > 0
       THEN Settle(r, "deleteCourse", request,
                   Reply(Db, Err("CANNOT_DELETE",
                                 [id |-> request.id,
                                  reason |-> [text |-> "Course has N active enrollments",
                                              N |-> total]])))
     ELSE Await(r, Db, [pc |-> "delete.delete", request |-> request])

\* what deleteCourse does with the answer of CourseRepository.delete
deleteCourse_afterCount(db, id) ==
  LET deleted == CourseRepository_delete(db, id) IN
  IF ~deleted.deleted THEN Reply(deleted.db, Err("NOT_FOUND", [id |-> id]))
  ELSE Reply(deleted.db, Ok([success |-> TRUE, id |-> id]))

\* ... up to the answer of CourseRepository.delete and to the end; the
\* request is remembered with the enrollments the DELETE cascaded to
DeleteDelete(r) ==
  /\ inflight[r].pc = "delete.delete"
  /\ LET request == inflight[r].request IN
     Settle(r, "deleteCourse",
            request @@ [cascaded |-> EnrollmentsOfCourse(Db, request.id)],
            deleteCourse_afterCount(Db, request.id))

\* the one course body of the interleaved catalog
RaceCreateBodies == { [name |-> "X", price |-> Free, categoryTag |-> <<"prakerja">>] }

\* Enroll and Delete course interleaved, on a catalog that Create course fills
NextEnrollRace ==
  \/ CreateCourse({NoUser}, RaceCreateBodies)
  \/ \E r \in Requests : EnrollValidate(r)
  \/ \E r \in Requests : EnrollFindCourse(r)
  \/ \E r \in Requests : EnrollFindExisting(r)
  \/ \E r \in Requests : EnrollCreate(r)
  \/ \E r \in Requests : EnrollFindById(r)
  \/ \E r \in Requests : DeleteFindCourse(r)
  \/ \E r \in Requests : DeleteCountEnrollments(r)
  \/ \E r \in Requests : DeleteDelete(r)

SpecEnrollRace == Init /\ [][NextEnrollRace]_vars

\* updateCourse up to the answer of CourseRepository.findById, and on through
\* the validation of the merged view to the call of CourseRepository.update
UpdateFindCourse(r, bodies) ==
  /\ inflight[r] = Idle
  /\ \E id \in CourseIds, body \in bodies :
       LET request == [id |-> id, body |-> body]
           data == ParseCourseInput(body)
           existingCourse == CourseRepository_findById(Db, id) IN
       IF existingCourse = Null
         THEN Settle(r, "updateCourse", request, Reply(Db, Err("NOT_FOUND", [id |-> id])))
       ELSE
       LET courseForValidation == data @@ existingCourse
           validationResults == validateCompleteCourse(courseForValidation) IN
       IF Len(validationResults) > 0
         THEN Settle(r, "updateCourse", request, Reply(Db, FirstError(validationResults)))
       ELSE IF ~canCourseBeUpdated(existingCourse)
         THEN Settle(r, "updateCourse", request,
                     Reply(Db, Err("CANNOT_UPDATE",
                                   [id |-> id,
                                    reason |-> "Course cannot be updated in current state"])))
       ELSE Await(r, Db, [pc |-> "update.update", request |-> request, data |-> data,
                          existingCourse |-> existingCourse])

\* what updateCourse does with the answer of CourseRepository.update
updateCourse_afterFind(db, id, data, t) ==
  LET updated == CourseRepository_update(db, id, data, t) IN
  IF updated.row = Null THEN Reply(updated.db, Err("NOT_FOUND", [id |-> id]))
  ELSE Reply(updated.db, Ok(updated.row))

\* ... up to the answer of CourseRepository.update and to the end; the
\* request is remembered with the course its existence check found
UpdateUpdate(r) ==
  /\ inflight[r].pc = "update.update"
  /\ Settle(r, "updateCourse",
            inflight[r].request @@ [existingCourse |-> inflight[r].existingCourse],
            updateCourse_afterFind(Db, inflight[r].request.id, inflight[r].data, now))

\* a paid course with a high rating, and a free course that says nothing of
\* its rating
RaceUpdateBodies ==
  { [price |-> Paid, categoryTag |-> <<"spl">>, rating |-> Rating45],
    [price |-> Zero, categoryTag |-> <<"prakerja">>] }

\* Update course interleaved with itself and with Delete course
NextUpdateRace ==
  \/ CreateCourse({NoUser}, RaceCreateBodies)
  \/ \E r \in Requests : UpdateFindCourse(r, RaceUpdateBodies)
  \/ \E r \in Requests : UpdateUpdate(r)
  \/ DeleteCourse

SpecUpdateRace == Init /\ [][NextUpdateRace]_vars

\* ------------------------------- CourseService.validateCompleteCourse alone
\* each field of a course data object: absent (<<>>) or present with a value
CourseDataChoices ==
  [name : {<<>>, <<"X">>, <<" ">>},
   price : {<<>>, <<Free>>, <<Paid>>, <<Dec(100000000, <<>>)>>},
   categoryTag : {<<>>, <<<<"spl">>>>, <<<<"foo">>>>, <<<<>>>>},
   rating : {<<>>, <<Null>>, <<Rating30>>, <<Rating45>>, <<Dec(9, <<9>>)>>},
   thumbnail : {<<>>, <<Null>>, <<[text |-> "https://x", isUrl |-> TRUE]>>,
                <<[text |-> "x", isUrl |-> FALSE]>>}]

\* the object with the keys that are present
CourseDataOf(choice) ==
  [k \in {f \in DOMAIN choice : Len(choice[f]) = 1} |-> choice[k][1]]

InitCourseData ==
  /\ courses = EmptyTable
  /\ enrollments = EmptyTable
  /\ nextCourseId = 1
  /\ nextEnrollmentId = 1
  /\ now = 0
  /\ inflight = [r \in Requests |-> Idle]
  /\ todos = EmptyTable
  /\ nextTodoId = 1
  /\ toggles = EmptyTable
  /\ \E choice \in CourseDataChoices :
       last = [op |-> "input", request |-> [courseData |-> CourseDataOf(choice)]]

ValidateCourseData ==
  /\ last.op = "input"
  /\ last' = [op |-> "validateCompleteCourse", request |-> last.request,
              response |-> validateCompleteCourse(last.request.courseData)]
  /\ UNCHANGED <<courses, enrollments, nextCourseId, nextEnrollmentId, now,
                 inflight, todoVars>>

NextCourseData == ValidateCourseData

SpecCourseData == InitCourseData /\ [][NextCourseData]_vars

\* --------------------------------- CourseService.validateCourseRating alone
\* ratings: none, null, and the strings of /^\d(\.\d)?$/ with these digits
RatingInputs ==
  {Undefined, Null}
    \cup {Dec(w, f) : w \in 0..9, f \in {<<>>, <<0>>, <<1>>, <<5>>, <<9>>}}

PriceInputs ==
  {Dec(0, <<>>), Dec(0, <<0>>), Dec(0, <<0, 0>>), Dec(0, <<0, 1>>),
   Dec(1, <<>>), Dec(100, <<0, 0>>)}

InitRating ==
  /\ courses = EmptyTable
  /\ enrollments = EmptyTable
  /\ nextCourseId = 1
  /\ nextEnrollmentId = 1
  /\ now = 0
  /\ inflight = [r \in Requests |-> Idle]
  /\ todos = EmptyTable
  /\ nextTodoId = 1
  /\ toggles = EmptyTable
  /\ \E rating \in RatingInputs, price \in PriceInputs :
       last = [op |-> "input", request |-> [rating |-> rating, price |-> price]]

ValidateRating ==
  /\ last.op = "input"
  /\ last' = [op |-> "validateCourseRating", request |-> last.request,
              response |-> validateCourseRating(last.request.rating, last.request.price)]
  /\ UNCHANGED <<courses, enrollments, nextCourseId, nextEnrollmentId, now,
                 inflight, todoVars>>

NextRating == ValidateRating

SpecRating == InitRating /\ [][NextRating]_vars

\* ------------------------------------------------------------- todos
\* routes/todos: the todo table, TodoRepository and the Toggle todo handler.
\* A todo row is [id, text, completed]. toggles is a history variable: for
\* every todo ever created, the completed flag it was created with and the
\* number of Toggle todo calls on it that returned successfully.

TodoIds == 1..MaxTodos

TodoTexts == {"t"}

\* lib/db/schema/todo.ts through TodoRepository.getById
TodoRepository_getById(table, id) ==
  IF id \in DOMAIN table THEN table[id] ELSE Null

\* TodoRepository.create: completed is input.completed ?? false
TodoRepository_create(table, id, input) ==
  table @@ (id :> [id |-> id,
                   text |-> input.text,
                   completed |-> IF Has(input, "completed")
                                 THEN input.completed ELSE FALSE])

\* TodoRepository.delete: the table without the row
TodoRepository_delete(table, id) ==
  [i \in DOMAIN table \ {id} |-> table[i]]

\* the UPDATE statement of TodoRepository.toggle: the rows with this id get
\* the negation of the flag that was read earlier
TodoRepository_toggle_update(table, id, existingTodo) ==
  [i \in DOMAIN table |->
     IF i = id THEN [table[i] EXCEPT !.completed = ~existingTodo.completed]
     ELSE table[i]]

CreateTodoInputs ==
  { [text |-> x] : x \in TodoTexts }
    \cup { [text |-> x, completed |-> c] : x \in TodoTexts, c \in BOOLEAN }

\* a todo is created
CreateTodo ==
  /\ nextTodoId <= MaxTodos
  /\ \E input \in CreateTodoInputs :
       LET table == TodoRepository_create(todos, nextTodoId, input)
       IN /\ todos' = table
          /\ toggles' = toggles @@
               (nextTodoId :> [original |-> table[nextTodoId].completed,
                               succeeded |-> 0])
          /\ last' = [op |-> "createTodo", request |-> input,
                      response |-> Ok(table[nextTodoId])]
  /\ nextTodoId' = nextTodoId + 1
  /\ UNCHANGED <<courses, enrollments, nextCourseId, nextEnrollmentId, now,
                 inflight>>

\* deleteTodo: NOT_FOUND for a missing id, else the row is removed
DeleteTodo ==
  /\ \E id \in TodoIds :
       IF TodoRepository_getById(todos, id) = Null
       THEN /\ last' = [op |-> "deleteTodo", request |-> [id |-> id],
                        response |-> Err("NOT_FOUND", [id |-> id])]
            /\ todos' = todos
       ELSE /\ todos' = TodoRepository_delete(todos, id)
            /\ last' = [op |-> "deleteTodo", request |-> [id |-> id],
                        response |-> Ok([success |-> TRUE, id |-> id])]
  /\ UNCHANGED <<courses, enrollments, nextCourseId, nextEnrollmentId, now,
                 inflight, nextTodoId, toggles>>

\* the Toggle todo calls on id that have read the row and not yet written
TogglesInFlight(id) ==
  { q \in Requests : inflight[q].pc = "toggle.update" /\ inflight[q].id = id }

\* toggleTodo up to the answer of getById inside TodoRepository.toggle
ToggleGetById(r) ==
  /\ inflight[r] = Idle
  /\ \E id \in TodoIds :
       LET existingTodo == TodoRepository_getById(todos, id)
       IN IF existingTodo = Null
          THEN /\ last' = [op |-> "toggleTodo",
                           request |-> [id |-> id, stored |-> todos],
                           response |-> Err("NOT_FOUND", [id |-> id])]
               /\ inflight' = inflight
          ELSE /\ toggles[id].succeeded + Cardinality(TogglesInFlight(id))
                    < MaxToggles
               /\ inflight' = [inflight EXCEPT ![r] =
                    [pc |-> "toggle.update", id |-> id,
                     existingTodo |-> existingTodo]]
               /\ last' = last
  /\ UNCHANGED <<courses, enrollments, nextCourseId, nextEnrollmentId, now,
                 todoVars>>

\* toggleTodo from the UPDATE of TodoRepository.toggle to its answer
ToggleUpdate(r) ==
  /\ inflight[r].pc = "toggle.update"
  /\ LET id == inflight[r].id
         table == TodoRepository_toggle_update(todos, id,
                                               inflight[r].existingTodo)
         result == TodoRepository_getById(table, id)
         request == [id |-> id, stored |-> todos]
     IN /\ todos' = table
        /\ IF result = Null
           THEN /\ last' = [op |-> "toggleTodo", request |-> request,
                            response |-> Err("NOT_FOUND", [id |-> id])]
                /\ toggles' = toggles
           ELSE /\ last' = [op |-> "toggleTodo", request |-> request,
                            response |-> Ok(result)]
                /\ toggles' = [toggles EXCEPT ![id].succeeded = @ + 1]
  /\ inflight' = [inflight EXCEPT ![r] = Idle]
  /\ UNCHANGED <<courses, enrollments, nextCourseId, nextEnrollmentId, now,
                 nextTodoId>>

NextTodo ==
  \/ CreateTodo
  \/ DeleteTodo
  \/ \E r \in Requests : ToggleGetById(r)
  \/ \E r \in Requests : ToggleUpdate(r)

SpecTodo == Init /\ [][NextTodo]_vars

TagUniverse == {"prakerja", "spl", "SPL", "foo"}

InitTags ==
  /\ courses = EmptyTable
  /\ enrollments = EmptyTable
  /\ nextCourseId = 1
  /\ nextEnrollmentId = 1
  /\ now = 0
  /\ inflight = [r \in Requests |-> Idle]
  /\ todos = EmptyTable
  /\ nextTodoId = 1
  /\ toggles = EmptyTable
  /\ \E categoryTags \in SeqsUpTo(TagUniverse, MaxTagLen) :
       last = [op |-> "input", request |-> [categoryTags |-> categoryTags]]

ValidateTags ==
  /\ last.op = "input"
  /\ last' = [op |-> "validateCategoryTags", request |-> last.request,
              response |-> validateCategoryTags(last.request.categoryTags)]
  /\ UNCHANGED <<courses, enrollments, nextCourseId, nextEnrollmentId, now,
                 inflight, todoVars>>

NextTags == ValidateTags

SpecTags == InitTags /\ [][NextTags]_vars

\* ============================================================ properties
StoredPairs == {<<enrollments[e].userId, enrollments[e].courseId>> : e \in DOMAIN enrollments}

\* C1: while a user's enrollment in a course is stored, Enroll by that user
\* in that course fails with ALREADY_ENROLLED carrying userId, courseId and
\* the id of the stored enrollment, and leaves the store as it was.
C1_SecondEnrollNamesFirst ==
  \A userId \in Users, courseId \in DOMAIN courses, carriesCode \in BOOLEAN :
    <<userId, courseId>> \in StoredPairs =>
      LET reply == enrollCourse(Db, userId, courseId, now, carriesCode) IN
      /\ reply.db = Db
      /\ ~reply.response.ok
      /\ reply.response.code = "ALREADY_ENROLLED"
      /\ \E e \in DOMAIN enrollments :
           /\ enrollments[e].userId = userId
           /\ enrollments[e].courseId = courseId
           /\ reply.response.data =
                [userId |-> userId, courseId |-> courseId, enrollmentId |-> e]

\* a second Enroll was answered ALREADY_ENROLLED without an enrollmentId
C1_SecondEnrollWithoutId ==
  /\ last.op = "enroll"
  /\ <<last.request.userId, last.request.courseId>> \in StoredPairs
  /\ ~last.response.ok
  /\ last.response.code = "ALREADY_ENROLLED"
  /\ ~Has(last.response.data, "enrollmentId")

\* C2: Enroll by a signed-in caller with a courseId that names no stored
\* course fails with COURSE_NOT_FOUND carrying that courseId, and creates no
\* enrollment.
C2_MissingCourseIsCourseNotFound ==
  \A userId \in Users, courseId \in CourseIds \ DOMAIN courses, carriesCode \in BOOLEAN :
    LET reply == enrollCourse(Db, userId, courseId, now, carriesCode) IN
    /\ reply.db = Db
    /\ reply.response = Err("COURSE_NOT_FOUND", [courseId |-> courseId])

\* Enroll in a course that is not stored was answered ALREADY_ENROLLED
C2_MissingCourseAnsweredAlreadyEnrolled ==
  /\ last.op = "enroll"
  /\ last.request.userId \in Users
  /\ last.request.courseId \notin DOMAIN courses
  /\ ~last.response.ok
  /\ last.response.code = "ALREADY_ENROLLED"
  /\ <<last.request.userId, last.request.courseId>> \notin StoredPairs

C4_NoSessionIsUnauthorized ==
  /\ \A courseId \in CourseIds \cup {0}, carriesCode \in BOOLEAN :
       enrollCourse(Db, NoUser, courseId, now, carriesCode)
         = Reply(Db, Err("UNAUTHORIZED", [operation |-> "enroll-course"]))
  /\ \A input \in PageInputs :
       getMyCourses(Db, NoUser, input, <<>>)
         = Reply(Db, Err("UNAUTHORIZED", [operation |-> "get-my-courses"]))

\* a request without a session was answered UNAUTHORIZED while rows are stored
C4_Unauthorized ==
  /\ last.op \in {"enroll", "getMyCourses"}
  /\ last.request.userId = NoUser
  /\ ~last.response.ok
  /\ last.response.code = "UNAUTHORIZED"
  /\ DOMAIN enrollments # {}

\* C5: at every moment of a history of requests handled one at a time, no two
\* enrollment rows have the same userId and the same courseId.
C5_OneEnrollmentPerPair ==
  \A e1, e2 \in DOMAIN enrollments :
    (enrollments[e1].userId = enrollments[e2].userId
       /\ enrollments[e1].courseId = enrollments[e2].courseId) => e1 = e2

\* two enrollments are stored and a further Enroll of a stored pair was refused
C5_DuplicateRefused ==
  /\ Cardinality(DOMAIN enrollments) = 2
  /\ last.op = "enroll"
  /\ ~last.response.ok
  /\ <<last.request.userId, last.request.courseId>> \in StoredPairs

\* C6: Delete of a stored course with at least one enrollment fails with
\* CANNOT_DELETE carrying the id and a reason that names the number of
\* enrollments, and removes nothing; Delete of a stored course with no
\* enrollment (as after all of them are removed) succeeds with
\* {success: true, id} and removes the course.
C6_DeleteRefusedWhileEnrolled ==
  \A id \in DOMAIN courses :
    LET reply == deleteCourse(Db, id)
        count == Cardinality({e \in DOMAIN enrollments : enrollments[e].courseId = id}) IN
    /\ count > 0 =>
         /\ reply.db = Db
         /\ ~reply.response.ok
         /\ reply.response.code = "CANNOT_DELETE"
         /\ reply.response.data.id = id
         /\ reply.response.data.reason.N = count
    /\ count = 0 =>
         /\ reply.response = Ok([success |-> TRUE, id |-> id])
         /\ DOMAIN reply.db.courses = DOMAIN courses \ {id}
         /\ \A c \in DOMAIN reply.db.courses : reply.db.courses[c] = courses[c]
         /\ reply.db.enrollments = enrollments

\* the only course ever created had an enrollment, and its Delete succeeded
C6_DeletedAfterUnenroll ==
  /\ nextCourseId = 2
  /\ nextEnrollmentId > 1
  /\ last.op = "deleteCourse"
  /\ last.response.ok
  /\ courses = EmptyTable

\* C7: Get, Update and Delete of an id that names no stored course fail with
\* NOT_FOUND carrying that id and leave the store as it was; Delete repeated
\* on such an id fails with NOT_FOUND again.
C7_MissingIdIsNotFound ==
  \A id \in CourseIds \ DOMAIN courses :
    LET notFound == Reply(Db, Err("NOT_FOUND", [id |-> id])) IN
    /\ getCourse(Db, id) = notFound
    /\ \A body \in UpdateBodies \cup FewUpdateBodies :
         updateCourse(Db, id, ParseCourseInput(body), now) = notFound
    /\ deleteCourse(Db, id) = notFound
    /\ deleteCourse(deleteCourse(Db, id).db, id) = notFound

\* a course that was deleted was asked for again and NOT_FOUND was the answer
C7_NotFoundAfterDelete ==
  /\ last.op \in {"getCourse", "updateCourse", "deleteCourse"}
  /\ last.request.id < nextCourseId
  /\ last.request.id \notin DOMAIN courses
  /\ ~last.response.ok
  /\ last.response.code = "NOT_FOUND"

IsZeroPrice(course) == course.price.w = 0 /\ \A i \in DOMAIN course.price.f : course.price.f[i] = 0

IsRatedAbove3(course) ==
  /\ course.rating # Null
  /\ \/ course.rating.w > 3
     \/ course.rating.w = 3 /\ \E i \in DOMAIN course.rating.f : course.rating.f[i] > 0

UnknownTagsOf(categoryTags) == {categoryTags[i] : i \in DOMAIN categoryTags} \ {"prakerja", "spl"}

\* C10: validateCategoryTags answers valid exactly when the list
\* is non-empty, has at most 2 elements and every element is exactly
\* "prakerja" or "spl"; when a list of 1 or 2 elements has an element outside
\* the whitelist, the reason names every such element.
C10_TagListValidity ==
  last.op = "validateCategoryTags" =>
    LET categoryTags == last.request.categoryTags
        result == last.response IN
    /\ result.valid <=> /\ Len(categoryTags) > 0
                        /\ Len(categoryTags) <= 2
                        /\ UnknownTagsOf(categoryTags) = {}
    /\ (Len(categoryTags) \in {1, 2} /\ UnknownTagsOf(categoryTags) # {}) =>
         /\ Has(result.reason, "tags")
         /\ Range(result.reason.tags) = UnknownTagsOf(categoryTags)

\* C10: validateCategoryTags answers valid exactly when the list is
\* non-empty, has at most 2 elements and every element is exactly "prakerja"
\* or "spl"; whenever the list has an element outside the whitelist, the
\* reason names every such element.
C10_UnknownTagsAlwaysNamed ==
  last.op = "validateCategoryTags" =>
    LET categoryTags == last.request.categoryTags
        result == last.response IN
    /\ result.valid <=> /\ Len(categoryTags) > 0
                        /\ Len(categoryTags) <= 2
                        /\ UnknownTagsOf(categoryTags) = {}
    /\ UnknownTagsOf(categoryTags) # {} =>
         /\ Has(result.reason, "tags")
         /\ Range(result.reason.tags) = UnknownTagsOf(categoryTags)

\* a list of two unknown tags was validated and both are named
C10_TwoUnknownTagsNamed ==
  /\ last.op = "validateCategoryTags"
  /\ last.request.categoryTags = <<"foo", "SPL">>
  /\ ~last.response.valid
  /\ last.response.reason.tags = <<"foo", "SPL">>

\* C11: Create course needs no session: a body is accepted from an anonymous
\* caller exactly when it is accepted from a signed-in one; a successful
\* Create adds exactly one course row under an id never handed out before,
\* with createdBy the caller's id, or absent (NoUser) for an anonymous caller,
\* returns that row, and leaves every other row as it was.
C11_CreateAttributesCaller ==
  /\ \A id \in DOMAIN courses : id < nextCourseId
  /\ \E body \in CreateBodies :
       createCourse(Db, NoUser, ParseCourseInput(body), now, FALSE).response.ok
  /\ \A creatorId \in Users \cup {NoUser}, body \in CreateBodies, carriesCode \in BOOLEAN :
       LET reply == createCourse(Db, creatorId, ParseCourseInput(body), now, carriesCode)
           anonymous == createCourse(Db, NoUser, ParseCourseInput(body), now, carriesCode)
           added == DOMAIN reply.db.courses \ DOMAIN courses IN
       /\ reply.response.ok = anonymous.response.ok
       /\ reply.response.ok =>
            /\ Cardinality(added) = 1
            /\ \A id \in added :
                 /\ id >= nextCourseId
                 /\ reply.db.courses[id].createdBy = creatorId
                 /\ reply.response.value = reply.db.courses[id]
                 /\ reply.response.value.id = id
            /\ DOMAIN courses \subseteq DOMAIN reply.db.courses
            /\ \A id \in DOMAIN courses : reply.db.courses[id] = courses[id]
            /\ reply.db.enrollments = enrollments

\* a course created anonymously and one created by u1 are stored
C11_BothCreatorsStored ==
  /\ \E id \in DOMAIN courses : courses[id].createdBy = NoUser
  /\ \E id \in DOMAIN courses : courses[id].createdBy = "u1"
  /\ last.op = "createCourse"
  /\ last.response.ok
  /\ last.response.value.createdBy = last.request.userId

ValidationFailure(failures) ==
  Err("VALIDATION_FAILED", [field |-> failures[1].field, reason |-> failures[1].reason])

\* C12: when validateCompleteCourse finds a failure in the input of Create
\* course (under either definition of the handler), or in the stored course
\* overlaid with the data of Update course, the operation fails with
\* VALIDATION_FAILED carrying the field and the reason of the first failure,
\* and the store is left as it was.
C12_FirstFailureRejects ==
  /\ \A creatorId \in {NoUser, "u1"}, body \in CreateBodies, carriesCode \in BOOLEAN :
       LET input == ParseCourseInput(body)
           failures == validateCompleteCourse(input) IN
       Len(failures) > 0 =>
         /\ createCourse(Db, creatorId, input, now, carriesCode)
              = Reply(Db, ValidationFailure(failures))
         /\ createCourse2(Db, creatorId, input, now, carriesCode)
              = Reply(Db, ValidationFailure(failures))
  /\ \A id \in DOMAIN courses, body \in UpdateBodies :
       LET data == ParseCourseInput(body)
           failures == validateCompleteCourse(data @@ courses[id]) IN
       Len(failures) > 0 =>
         updateCourse(Db, id, data, now) = Reply(Db, ValidationFailure(failures))

\* a Create whose input fails validation was answered with the stored course
C12_InvalidCourseStored ==
  /\ last.op = "createCourse"
  /\ Len(validateCompleteCourse(ParseCourseInput(last.request.body))) > 0
  /\ last.response.ok
  /\ last.response.value.id \in DOMAIN courses
  /\ courses[last.response.value.id].categoryTag = <<"foo">>

\* C12 for the first definition of createCourse and for updateCourse alone
C12_ValidatedHandlersReject ==
  /\ \A creatorId \in {NoUser, "u1"}, body \in CreateBodies, carriesCode \in BOOLEAN :
       LET input == ParseCourseInput(body)
           failures == validateCompleteCourse(input) IN
       Len(failures) > 0 =>
         createCourse(Db, creatorId, input, now, carriesCode)
           = Reply(Db, ValidationFailure(failures))
  /\ \A id \in DOMAIN courses, body \in UpdateBodies :
       LET data == ParseCourseInput(body)
           failures == validateCompleteCourse(data @@ courses[id]) IN
       Len(failures) > 0 =>
         updateCourse(Db, id, data, now) = Reply(Db, ValidationFailure(failures))

WritableFields == {"name", "price", "categoryTag", "thumbnail", "rating"}

\* C13: a successful Update course leaves every writable field that the
\* request did not supply at its stored value, never changes id, createdBy or
\* createdAt, leaves every other course and every enrollment as it was, and
\* sets updatedAt to the time of the request.
C13_UpdateWritesOnlySupplied ==
  \A id \in DOMAIN courses, body \in UpdateBodies :
    LET reply == updateCourse(Db, id, ParseCourseInput(body), now) IN
    reply.response.ok =>
      /\ \A k \in WritableFields \ DOMAIN body : reply.db.courses[id][k] = courses[id][k]
      /\ \A k \in {"id", "createdBy", "createdAt"} : reply.db.courses[id][k] = courses[id][k]
      /\ reply.db.courses[id].updatedAt = now
      /\ DOMAIN reply.db.courses = DOMAIN courses
      /\ \A other \in DOMAIN courses \ {id} : reply.db.courses[other] = courses[other]
      /\ reply.db.enrollments = enrollments

\* an Update that supplied only categoryTag succeeded and returned price 0.00
C13_PriceResetByUpdate ==
  /\ last.op = "updateCourse"
  /\ last.request.body = [categoryTag |-> <<"prakerja">>]
  /\ last.response.ok
  /\ last.response.value.price = Dec(0, <<0, 0>>)
  /\ courses[last.request.id].price = Dec(0, <<0, 0>>)

\* C14: after a successful Create course, Get course with the returned id,
\* with nothing in between, succeeds and returns the name, the price and the
\* categoryTag of the record that Create returned, and changes nothing.
C14_CreateThenGet ==
  \A creatorId \in {NoUser, "u1"}, body \in CreateBodies, carriesCode \in BOOLEAN :
    LET created == createCourse(Db, creatorId, ParseCourseInput(body), now, carriesCode) IN
    created.response.ok =>
      LET fetched == getCourse(created.db, created.response.value.id) IN
      /\ fetched.response.ok
      /\ fetched.db = created.db
      /\ fetched.response.value.id = created.response.value.id
      /\ fetched.response.value.name = created.response.value.name
      /\ fetched.response.value.price = created.response.value.price
      /\ fetched.response.value.categoryTag = created.response.value.categoryTag

\* a course that was never updated was fetched by its id
C14_FetchedAsCreated ==
  /\ last.op = "getCourse"
  /\ last.response.ok
  /\ last.request.id \in DOMAIN courses
  /\ last.response.value = courses[last.request.id]
  /\ now > 0
  /\ courses[last.request.id].createdAt = now
  /\ courses[last.request.id].updatedAt = now

\* C15: a course is created with createdAt equal to updatedAt; in every
\* state the updatedAt of a stored course is not earlier than its createdAt;
\* a successful Update course leaves createdAt as it was and sets updatedAt
\* to the time of the request, which is not earlier than createdAt and is
\* strictly later when the clock has moved on since the creation.
C15_UpdatedNotBeforeCreated ==
  /\ \A id \in DOMAIN courses : courses[id].updatedAt >= courses[id].createdAt
  /\ \A creatorId \in {NoUser, "u1"}, body \in CreateBodies, carriesCode \in BOOLEAN :
       LET reply == createCourse(Db, creatorId, ParseCourseInput(body), now, carriesCode) IN
       reply.response.ok =>
         /\ reply.response.value.createdAt = reply.response.value.updatedAt
         /\ reply.db.courses[reply.response.value.id].createdAt
              = reply.db.courses[reply.response.value.id].updatedAt
  /\ \A id \in DOMAIN courses, body \in UpdateBodies \cup FewUpdateBodies :
       LET reply == updateCourse(Db, id, ParseCourseInput(body), now) IN
       reply.response.ok =>
         /\ reply.db.courses[id].createdAt = courses[id].createdAt
         /\ reply.db.courses[id].updatedAt = now
         /\ reply.db.courses[id].updatedAt >= reply.db.courses[id].createdAt
         /\ now > courses[id].createdAt =>
              reply.db.courses[id].updatedAt > reply.db.courses[id].createdAt

\* C15: a course is created with createdAt equal to updatedAt; in every
\* state updatedAt is not earlier than createdAt; after any successful
\* Update course the course's updatedAt is strictly later than its createdAt
\* and createdAt is unchanged.
C15_UpdatedStrictlyAfterCreated ==
  /\ \A id \in DOMAIN courses : courses[id].updatedAt >= courses[id].createdAt
  /\ \A creatorId \in {NoUser, "u1"}, body \in CreateBodies, carriesCode \in BOOLEAN :
       LET reply == createCourse(Db, creatorId, ParseCourseInput(body), now, carriesCode) IN
       reply.response.ok =>
         reply.response.value.createdAt = reply.response.value.updatedAt
  /\ \A id \in DOMAIN courses, body \in UpdateBodies \cup FewUpdateBodies :
       LET reply == updateCourse(Db, id, ParseCourseInput(body), now) IN
       reply.response.ok =>
         /\ reply.db.courses[id].createdAt = courses[id].createdAt
         /\ reply.db.courses[id].updatedAt > reply.db.courses[id].createdAt

\* a course was updated after the clock moved on, and one updated at once
C15_UpdatedLaterAndAtOnce ==
  /\ last.op = "updateCourse"
  /\ last.response.ok
  /\ last.response.value.updatedAt > last.response.value.createdAt
  /\ \E id \in DOMAIN courses :
       /\ courses[id].updatedAt = courses[id].createdAt
       /\ courses[id].price = Dec(100, <<0, 0>>)

\* C16: the list handler rejects every input that reaches it with a limit
\* below 1 or above 100 with VALIDATION_FAILED naming "limit", and every
\* input with an offset below 0 with VALIDATION_FAILED naming "offset",
\* whatever the store holds and leaving it as it was; limit 100 with offset 0
\* is accepted.
C16_HandlerRejectsBadPagination ==
  \A input \in ListInputs :
    \A order \in OrderedByCreatedAtDesc(Db, CoursesMatching(Db, input)) :
      LET reply == getCourses(Db, input, order)
          badLimit == Has(input, "limit") /\ (input.limit < 1 \/ input.limit > 100)
          badOffset == Has(input, "offset") /\ input.offset < 0 IN
      /\ reply.db = Db
      /\ badLimit =>
           /\ ~reply.response.ok
           /\ reply.response.code = "VALIDATION_FAILED"
           /\ reply.response.data.field = "limit"
      /\ (~badLimit /\ badOffset) =>
           /\ ~reply.response.ok
           /\ reply.response.code = "VALIDATION_FAILED"
           /\ reply.response.data.field = "offset"
      /\ input = [limit |-> 100, offset |-> 0] => reply.response.ok

\* a list request with limit 0 was answered with a page
C16_LimitZeroAccepted ==
  /\ last.op = "getCourses"
  /\ last.request.input = [limit |-> 0]
  /\ last.response.ok
  /\ DOMAIN courses # {}

\* C17: List courses with a non-empty categoryTag filter that has a string
\* other than "prakerja" and "spl" fails with INVALID_CATEGORY_TAGS carrying
\* the filter and a reason, whatever the store holds; with a filter of one or
\* two whitelisted tags and valid pagination it returns stored courses that
\* each carry at least one of the requested tags, without repetition, as many
\* as limit and offset leave of them, and total is the number of all stored
\* courses carrying at least one requested tag.
C17_ListFiltersByAnyTag ==
  \A input \in {i \in ListInputs : Has(i, "categoryTag") /\ Len(i.categoryTag) > 0} :
    \A order \in OrderedByCreatedAtDesc(Db, CoursesMatching(Db, input)) :
      LET reply == getCourses(Db, input, order)
          filter == input.categoryTag
          requested == {filter[i] : i \in DOMAIN filter}
          limit == IF Has(input, "limit") THEN input.limit ELSE 50
          offset == IF Has(input, "offset") THEN input.offset ELSE 0
          wanted == {id \in DOMAIN courses :
                       \E i \in DOMAIN courses[id].categoryTag :
                         courses[id].categoryTag[i] \in requested}
          left == IF Cardinality(wanted) > offset THEN Cardinality(wanted) - offset ELSE 0 IN
      /\ reply.db = Db
      /\ ~(requested \subseteq {"prakerja", "spl"}) =>
           /\ ~reply.response.ok
           /\ reply.response.code = "INVALID_CATEGORY_TAGS"
           /\ reply.response.data.tags = filter
           /\ Has(reply.response.data, "reason")
      /\ (requested \subseteq {"prakerja", "spl"} /\ Len(filter) <= 2
            /\ limit \in 1..100 /\ offset >= 0) =>
           /\ reply.response.ok
           /\ reply.response.value.total = Cardinality(wanted)
           /\ Len(reply.response.value.courses) = (IF left < limit THEN left ELSE limit)
           /\ \A i \in DOMAIN reply.response.value.courses :
                /\ reply.response.value.courses[i].id \in wanted
                /\ reply.response.value.courses[i]
                     = courses[reply.response.value.courses[i].id]
           /\ \A i, j \in DOMAIN reply.response.value.courses :
                i # j => reply.response.value.courses[i].id
                           # reply.response.value.courses[j].id

\* a prakerja course and an spl course are stored, and a list request for
\* either tag with limit 1 returned one course and total 2
C17_EitherTagListed ==
  /\ \E id \in DOMAIN courses : courses[id].categoryTag = <<"prakerja">>
  /\ \E id \in DOMAIN courses : courses[id].categoryTag = <<"spl">>
  /\ last.op = "getCourses"
  /\ last.request.input = [limit |-> 1, categoryTag |-> <<"prakerja", "spl">>]
  /\ last.response.ok
  /\ last.response.value.total = 2
  /\ Len(last.response.value.courses) = 1

\* C18: in Get course, Create course, Update course and Enroll, an error that
\* leaves the handler is never the store's own error object: a failed store
\* call leaves as VALIDATION_FAILED with field "database", whatever fields the
\* store's error carries.
C18_StoreFailuresLeaveAsDatabase ==
  (last.op \in {"getCourse", "createCourse", "updateCourse", "enroll"}
     /\ ~last.response.ok) =>
    /\ ~Has(last.response, "raw")
    /\ Has(last.request, "storeFails") =>
         /\ last.response.code = "VALIDATION_FAILED"
         /\ last.response.data.field = "database"

\* Create course by a session whose user row is gone: the insert violates
\* the created_by foreign key, the driver's error carries a code property,
\* and the handler rethrows it as it is
C18_ForeignKeyErrorLeftRaw ==
  /\ last.op = "createCourse"
  /\ Has(last.request, "userId")
  /\ last.request.userId = GhostUser
  /\ Has(last.response, "raw")
  /\ last.response.carriesCode

\* C19: every error that leaves one of the seven operations, a failing store
\* call included, is one of the error kinds declared by the operation's
\* contract.
C19_OnlyDeclaredErrorsLeave ==
  (last.op \in Operations /\ ~last.response.ok) =>
    /\ ~Has(last.response, "raw")
    /\ last.response.code \in DeclaredErrors(last.op)

\* the store failed under Delete course, which has no catch, and its error
\* left the handler as it was thrown
C19_DeleteLeftStoreError ==
  /\ last.op = "deleteCourse"
  /\ Has(last.request, "storeFails")
  /\ Has(last.response, "raw")

\* the store with every enrollment of another user removed, and every course
\* the caller is not enrolled in
OwnPart(userId) ==
  LET mine == {e \in DOMAIN enrollments : enrollments[e].userId = userId} IN
  [Db EXCEPT !.enrollments = [e \in mine |-> enrollments[e]],
             !.courses = [c \in {enrollments[e].courseId : e \in mine} \cap DOMAIN courses
                            |-> courses[c]]]

\* C20: Get my courses answers an authenticated caller from the caller's own
\* enrollments alone: the answer is the one the same request gets from the
\* store without the other users' enrollments and the other courses, every
\* returned enrollment is the caller's, total is the number of all the
\* caller's enrollments whatever limit and offset are, and a caller without
\* enrollments gets the empty list.
C20_MyCoursesAreTheCallersOwn ==
  \A userId \in Users, input \in PageInputs :
    LET mine == {e \in DOMAIN enrollments : enrollments[e].userId = userId}
        limit == IF Has(input, "limit") THEN input.limit ELSE 50
        offset == IF Has(input, "offset") THEN input.offset ELSE 0
        left == IF Cardinality(mine) > offset THEN Cardinality(mine) - offset ELSE 0 IN
    /\ OrderedByEnrolledAtDesc(Db, EnrollmentsOfUser(Db, userId))
         = OrderedByEnrolledAtDesc(OwnPart(userId),
                                   EnrollmentsOfUser(OwnPart(userId), userId))
    /\ \A order \in OrderedByEnrolledAtDesc(Db, EnrollmentsOfUser(Db, userId)) :
         LET reply == getMyCourses(Db, userId, input, order) IN
         /\ reply.response.ok
         /\ reply.db = Db
         /\ reply.response = getMyCourses(OwnPart(userId), userId, input, order).response
         /\ reply.response.value.total = Cardinality(mine)
         /\ Len(reply.response.value.enrollments) = (IF left < limit THEN left ELSE limit)
         /\ \A i \in DOMAIN reply.response.value.enrollments :
              reply.response.value.enrollments[i].id \in mine
         /\ mine = {} => reply.response.value.enrollments = << >>

\* u1 asked for their courses and got one enrollment, total 1, while u2 has
\* an enrollment too
C20_OthersEnrollmentNotListed ==
  /\ last.op = "getMyCourses"
  /\ last.request.userId = "u1"
  /\ last.request.input = NoFields
  /\ last.response.ok
  /\ last.response.value.total = 1
  /\ Len(last.response.value.enrollments) = 1
  /\ \E e \in DOMAIN enrollments : enrollments[e].userId = "u2"

\* C21: the success value of Enroll satisfies the enrollment-with-course
\* output schema and the success value of Get my courses satisfies the
\* my-courses output schema; the embedded course's price is a decimal string.
C21_SuccessValueFitsOutputSchema ==
  /\ (last.op = "enroll" /\ last.response.ok) =>
       EnrollmentOutputSchemas_enrollmentWithCourse(last.response.value)
  /\ (last.op = "getMyCourses" /\ last.response.ok) =>
       EnrollmentOutputSchemas_myCourses(last.response.value)

\* Enroll succeeded and the course inside its value has a number for price
C21_EnrollReturnedNumberPrice ==
  /\ last.op = "enroll"
  /\ last.response.ok
  /\ last.response.value.course # Undefined
  /\ DOMAIN last.response.value.course.price = {"whole", "cents"}
  /\ courses[last.response.value.courseId].price \in {Free, Paid}

C28_EnrollmentsReferenceStoredCourses ==
  /\ \A e \in DOMAIN enrollments : enrollments[e].courseId \in DOMAIN courses
  /\ \A id \in DOMAIN courses :
       \A e \in DOMAIN CourseRepository_delete(Db, id).db.enrollments :
         enrollments[e].courseId # id
  /\ \A r \in Requests :
       (inflight[r].pc = "enroll.create"
          /\ inflight[r].request.courseId \notin DOMAIN courses) =>
         LET created == EnrollmentRepository_create(Db, inflight[r].request.userId,
                                                    inflight[r].request.courseId, now) IN
         /\ created.thrown
         /\ created.db = Db
  /\ (last.op = "enroll" /\ Has(last.request, "insertRefused")) => ~last.response.ok

\* an Enroll request passed its checks, the course was deleted, and the
\* insert was refused: the request ended with an error
C28_InsertForDeletedCourseRefused ==
  /\ last.op = "enroll"
  /\ Has(last.request, "insertRefused")
  /\ ~last.response.ok
  /\ last.request.courseId \notin DOMAIN courses
  /\ nextCourseId > last.request.courseId

\* C24: also when Update course requests on one course interleave, no stored
\* course has price 0 together with a rating above 3.0.
C24_NoFreeCourseRatedAbove3 ==
  \A id \in DOMAIN courses :
    IsZeroPrice(courses[id]) => ~IsRatedAbove3(courses[id])

\* a stored course has price 0.00 and rating 4.5, after an Update course that
\* gave price 0 and no rating succeeded
C24_FreeCourseRated45 ==
  /\ last.op = "updateCourse"
  /\ last.response.ok
  /\ last.request.body = [price |-> Zero, categoryTag |-> <<"prakerja">>]
  /\ last.request.id \in DOMAIN courses
  /\ courses[last.request.id].price = Dec(0, <<0, 0>>)
  /\ courses[last.request.id].rating = Rating45
  /\ last.request.existingCourse.rating = Null

\* C29: an Update course request whose course was deleted after its
\* existence check and before its write fails with NOT_FOUND carrying the id
\* and leaves the store as it is: the course is not stored again.
C29_UpdateOfDeletedCourseNotFound ==
  \A r \in Requests :
    (inflight[r].pc = "update.update" /\ inflight[r].request.id \notin DOMAIN courses) =>
      LET id == inflight[r].request.id
          reply == updateCourse_afterFind(Db, id, inflight[r].data, now) IN
      /\ reply.response = Err("NOT_FOUND", [id |-> id])
      /\ reply.db = Db

\* Update course found its course, the course was deleted, and the request
\* ended with NOT_FOUND and the course still gone
C29_NotFoundAfterCheckPassed ==
  /\ last.op = "updateCourse"
  /\ Has(last.request, "existingCourse")
  /\ ~last.response.ok
  /\ last.response.code = "NOT_FOUND"
  /\ last.response.data = [id |-> last.request.id]
  /\ last.request.id \notin DOMAIN courses

\* the fields in the order validateCompleteCourse looks at them
FieldOrder == <<"name", "price", "categoryTag", "rating", "thumbnail">>

\* the verdict of the validator of a field that is present; the rating's
\* verdict without a price is that of its range alone
FieldVerdict(courseData, field) ==
  CASE field = "name" -> validateCourseName(courseData.name)
    [] field = "price" -> validateCoursePrice(courseData.price)
    [] field = "categoryTag" -> validateCategoryTags(courseData.categoryTag)
    [] field = "rating" ->
         IF Has(courseData, "price")
           THEN validateCourseRating(courseData.rating, courseData.price)
         ELSE IF courseData.rating = Null THEN Valid
         ELSE IF NumLess(parseFloat(courseData.rating), MIN_RATING)
                 \/ NumLess(MAX_RATING, parseFloat(courseData.rating))
           THEN Invalid("rating", [text |-> "Rating must be between 1 and 5"])
         ELSE Valid
    [] field = "thumbnail" -> validateThumbnailUrl(courseData.thumbnail)

\* the fields validateCompleteCourse looks at: those present, the rating
\* only when the price is present too
CheckedFields(courseData) ==
  {f \in DOMAIN courseData : f = "rating" => Has(courseData, "price")}

\* C25: validateCompleteCourse looks at the fields that are present, the
\* rating only when the price is present as well, in the order name, price,
\* categoryTag, rating, thumbnail; its result holds the failure of each such
\* field that fails, once and in that order, so its first element is the
\* failure of the earliest failing field, and it is empty exactly when every
\* field it looks at passes.
C25_FailuresInFieldOrder ==
  last.op = "validateCompleteCourse" =>
    LET courseData == last.request.courseData
        results == last.response
        failing == {f \in CheckedFields(courseData) : ~FieldVerdict(courseData, f).valid}
        Position(f) == CHOOSE i \in DOMAIN FieldOrder : FieldOrder[i] = f IN
    /\ Len(results) = Cardinality(failing)
    /\ \A i \in DOMAIN results :
         /\ results[i].field \in failing
         /\ results[i] = FieldVerdict(courseData, results[i].field)
    /\ \A i, j \in DOMAIN results :
         i < j => Position(results[i].field) < Position(results[j].field)
    /\ results = <<>> <=> failing = {}

\* the statement with every present field looked at, the rating also when
\* there is no price: the result is empty exactly when every present field
\* passes its validator
C25_EmptyIffEveryPresentFieldPasses ==
  last.op = "validateCompleteCourse" =>
    LET courseData == last.request.courseData IN
    last.response = <<>>
      <=> \A f \in DOMAIN courseData : FieldVerdict(courseData, f).valid

\* of a blank name, a rating of 9.9 without a price and a thumbnail that is
\* no URL, the name and the thumbnail are reported, in this order
C25_RatingWithoutPriceSkipped ==
  /\ last.op = "validateCompleteCourse"
  /\ DOMAIN last.request.courseData = {"name", "rating", "thumbnail"}
  /\ last.request.courseData.rating = Dec(9, <<9>>)
  /\ Len(last.response) = 2
  /\ last.response[1].field = "name"
  /\ last.response[2].field = "thumbnail"

\* a rating string in tenths, a price string in hundredths
Tenths(rating) == 10 * rating.w + (IF Len(rating.f) = 0 THEN 0 ELSE rating.f[1])

Hundredths(price) ==
  100 * price.w + (IF Len(price.f) = 0 THEN 0
                   ELSE IF Len(price.f) = 1 THEN 10 * price.f[1]
                   ELSE 10 * price.f[1] + price.f[2])

\* C26: validateCourseRating answers valid when there is no rating; for a
\* rating it answers valid exactly when the rating is within 1.0 .. 5.0 and
\* the price is not 0 or the rating is not above 3.0.
C26_RatingRule ==
  last.op = "validateCourseRating" =>
    LET rating == last.request.rating
        price == last.request.price IN
    IF rating \in {Undefined, Null} THEN last.response.valid
    ELSE last.response.valid
           <=> /\ Tenths(rating) >= 10
               /\ Tenths(rating) <= 50
               /\ ~(Hundredths(price) = 0 /\ Tenths(rating) > 30)

\* rating 3.1 at price 0.00 was answered invalid, for the rating
C26_FreeCourseRated31Invalid ==
  /\ last.op = "validateCourseRating"
  /\ last.request = [rating |-> Dec(3, <<1>>), price |-> Dec(0, <<0, 0>>)]
  /\ ~last.response.valid
  /\ last.response.field = "rating"

Odd(n) == n % 2 = 1

\* C30: Toggle todo inverts the completed flag: whenever no Toggle todo call
\* is part-way through, the flag of a stored todo equals the one it was
\* created with exactly when the number of successful calls on it is even,
\* whether the calls ran one after another or interleaved; and a call on an
\* id that is not stored answers NOT_FOUND and leaves the table as it was.
C30_ToggleInvertsCompleted ==
  /\ \A id \in DOMAIN todos :
       TogglesInFlight(id) = {} =>
         (todos[id].completed = toggles[id].original
            <=> ~Odd(toggles[id].succeeded))
  /\ (last.op = "toggleTodo" /\ last.request.id \notin DOMAIN last.request.stored)
       => /\ ~last.response.ok
          /\ last.response.code = "NOT_FOUND"
          /\ last.response.data = [id |-> last.request.id]
          /\ todos = last.request.stored

\* two interleaved Toggle todo calls both succeeded on a todo created not
\* completed, and the todo is completed
C30_TwoTogglesOneInversion ==
  \E id \in DOMAIN todos :
    /\ TogglesInFlight(id) = {}
    /\ toggles[id].succeeded = 2
    /\ ~toggles[id].original
    /\ todos[id].completed

====
